---- MODULE Spec2Model ----
(***************************************************************************)
(* The SubscriptionManager ledger (recurring subscriptions, tips, escrowed *)
(* micropayments, creator balances) as a state machine.  One transaction   *)
(* is one action, except that a transaction which calls the external USDC  *)
(* token is split at that call: the part before the call, the calls the    *)
(* token may make back into the ledger while it runs, and the part after   *)
(* the call (or the revert of the whole transaction).                      *)
(***************************************************************************)
EXTENDS Integers, Sequences, FiniteSets, TLC

(* ------------------------------ bounds --------------------------------- *)
NumAddr == 3            \* identities 1..NumAddr can send transactions
UnitAmount == 100       \* the positive amount offered to the entry points
MaxTicks == 2           \* the clock advances at most this many days
MaxRecords == 1         \* subscription and escrow records written in one run
MaxNested == 1          \* calls the token makes back into the ledger per call
MaxSplitAmount == 24    \* the fee split is tried on the amounts 1..MaxSplitAmount

(* ------------------------- program constants --------------------------- *)
NULL == 0                   \* address(0)
ONE_DAY == 86400            \* 1 days
FEE_DENOMINATOR == 10000
INITIAL_FEE == 250
MAX_FEE == 1000
NOT_ENTERED == "NOT_ENTERED" \* ReentrancyGuard._status values
ENTERED == "ENTERED"

HalfDay == ONE_DAY \div 2
Addr == 1 .. NumAddr
LEDGER == NumAddr + 1       \* address(this), the ledger's own token account
Holders == Addr \cup {LEDGER}
InitBal == 3 * UnitAmount   \* tokens a funded identity holds, and has approved
Funded == {NumAddr}         \* who holds tokens and has approved the ledger at the start
Amounts == {0, UnitAmount}
Intervals == {HalfDay, ONE_DAY}
Fees == {MAX_FEE, MAX_FEE + 1}
ContentIds == {"content-1"}
DeployTime == ONE_DAY       \* block.timestamp of the deployment
Times == {DeployTime + k * ONE_DAY : k \in 0 .. MaxTicks}

VARIABLES
    owner,                \* Ownable._owner
    agentWallet,          \* address public agentWallet
    platformFee,          \* uint256 public platformFee
    subscriptions,        \* mapping(bytes32 => Subscription), written keys only
    userSubscriptions,    \* mapping(address => bytes32[])
    creatorSubscriptions, \* mapping(address => bytes32[])
    escrows,              \* mapping(bytes32 => Escrow), written keys only
    creatorBalances,      \* mapping(address => uint256)
    totalTipsReceived,    \* mapping(address => uint256)
    status,               \* ReentrancyGuard._status
    tokenBalance,         \* usdcToken.balanceOf
    tokenAllowance,       \* usdcToken.allowance(., address(this))
    now,                  \* block.timestamp
    frame,                \* the transaction suspended in the external token call
    last,                 \* the transaction (or clock/token step) just finished
    processed,            \* per subscription: successful processSubscriptionPayment calls
    chargedAt,            \* per subscription: block.timestamp of its latest charge
    feesDue,              \* platform cuts of settled payments less withdrawPlatformFees
    job,                  \* AIPaymentAgent.processPaymentsAutomatically: its run
    ownerTipping,         \* SubscriptionTipping: Ownable._owner
    relayers,             \* SubscriptionTipping: mapping(address => bool) relayers
    subscriptionsTipping, \* SubscriptionTipping: subscriptions[user][creator], written pairs
    history               \* per pair: when its schedule was last set, when it was charged

ledger == <<owner, agentWallet, platformFee, subscriptions, userSubscriptions,
            creatorSubscriptions, escrows, creatorBalances, totalTipsReceived>>
token == <<tokenBalance, tokenAllowance>>
vars == <<owner, agentWallet, platformFee, subscriptions, userSubscriptions,
          creatorSubscriptions, escrows, creatorBalances, totalTipsReceived,
          status, tokenBalance, tokenAllowance, now, frame, last, processed, chargedAt, feesDue,
          job, ownerTipping, relayers, subscriptionsTipping, history>>
\* the storage of SubscriptionTipping
tipping == <<ownerTipping, relayers, subscriptionsTipping, history>>
\* what no entry point of SubscriptionManager touches
others == <<job, tipping>>

(* ------------------------------ storage -------------------------------- *)
\* keccak256(abi.encodePacked(...)) is modelled as the tuple it hashes
SubId(subscriber, creator, time, amount) == <<subscriber, creator, time, amount>>
EscrowId(payer, creator, contentId, time) == <<payer, creator, contentId, time>>
SubIds == {SubId(s, c, t, UnitAmount) : s \in Addr, c \in Addr, t \in Times}
EscrowIds == {EscrowId(p, c, k, t) : p \in Addr, c \in Addr, k \in ContentIds, t \in Times}

ZeroSub == [subscriber |-> NULL, creator |-> NULL, amount |-> 0, interval |-> 0,
            nextPaymentDue |-> 0, active |-> FALSE, totalPaid |-> 0, paymentsCount |-> 0]
ZeroEscrow == [payer |-> NULL, creator |-> NULL, amount |-> 0, createdAt |-> 0,
               released |-> FALSE, contentId |-> ""]

\* reading a mapping slot that was never written gives the zero record
Sub(id) == IF id \in DOMAIN subscriptions THEN subscriptions[id] ELSE ZeroSub
Esc(id) == IF id \in DOMAIN escrows THEN escrows[id] ELSE ZeroEscrow

\* storage slots written so far
Records == Cardinality(DOMAIN subscriptions) + Cardinality(DOMAIN escrows)

\* the ledger's storage as one value: what a revert restores
Ledger == [owner |-> owner, agentWallet |-> agentWallet, platformFee |-> platformFee,
           subscriptions |-> subscriptions, userSubscriptions |-> userSubscriptions,
           creatorSubscriptions |-> creatorSubscriptions, escrows |-> escrows,
           creatorBalances |-> creatorBalances, totalTipsReceived |-> totalTipsReceived]

\* chain state a receipt remembers: the state its transaction was submitted in
World == [ledger |-> Ledger, tokenBalance |-> tokenBalance,
          tokenAllowance |-> tokenAllowance, processed |-> processed,
          chargedAt |-> chargedAt, feesDue |-> feesDue]

Restore(snap) ==
    /\ owner' = snap.owner
    /\ agentWallet' = snap.agentWallet
    /\ platformFee' = snap.platformFee
    /\ subscriptions' = snap.subscriptions
    /\ userSubscriptions' = snap.userSubscriptions
    /\ creatorSubscriptions' = snap.creatorSubscriptions
    /\ escrows' = snap.escrows
    /\ creatorBalances' = snap.creatorBalances
    /\ totalTipsReceived' = snap.totalTipsReceived

(* ----------------------- the payment agent's run ------------------------ *)
\* no run of processPaymentsAutomatically is under way
NoJob == [pc |-> "idle", ids |-> <<>>, i |-> 1, log |-> <<>>]

\* SubscriptionTipping is not part of the run
NotDeployedTipping ==
    /\ ownerTipping = NULL
    /\ relayers = {}
    /\ subscriptionsTipping = <<>>
    /\ history = <<>>

(* --------------------------- call records ------------------------------ *)
NoCall == [op |-> "none", caller |-> NULL, args |-> <<>>, res |-> "none"]
NoFrame == [op |-> "none", caller |-> NULL, args |-> <<>>, snap |-> <<>>,
            cut |-> 0, net |-> 0, party |-> NULL, amount |-> 0,
            nested |-> 0, inner |-> NoCall, events |-> <<>>]
Call(op, caller, args, res, events, inner, pre) ==
    [op |-> op, caller |-> caller, args |-> args, res |-> res,
     events |-> events, inner |-> inner, pre |-> pre]

\* last is the receipt of the transaction just mined; the next transaction
\* is submitted once the receipt has been read (NextTransaction)
Idle == frame.op = "none" /\ last.op = "none"

(* --------------------------- the USDC token ---------------------------- *)
\* IERC20.transferFrom(from, address(this), amount) succeeds
TransferFromOk(from, amount) ==
    tokenBalance[from] >= amount /\ tokenAllowance[from] >= amount
\* IERC20.transfer(to, amount) from the ledger's account succeeds
TransferOk(amount) == tokenBalance[LEDGER] >= amount
PullTokens(from, amount) ==
    /\ tokenBalance' = [tokenBalance EXCEPT ![from] = @ - amount, ![LEDGER] = @ + amount]
    /\ tokenAllowance' = [tokenAllowance EXCEPT ![from] = @ - amount]
PayTokens(to, amount) ==
    /\ tokenBalance' = [tokenBalance EXCEPT ![LEDGER] = @ - amount, ![to] = @ + amount]
    /\ UNCHANGED tokenAllowance

(* ----------------------------- modifiers ------------------------------- *)
onlyAgent_OwnerToo(caller) == caller = agentWallet \/ caller = owner
onlyAgent_Anyone(caller) == TRUE
onlyAgent(caller) == caller = agentWallet
onlyOwner(caller) == caller = owner
nonReentrant_Off == TRUE
nonReentrant == status # ENTERED

(* ----------------------------- fee split ------------------------------- *)
PlatformCut_RoundUp(amount) ==
    (amount * platformFee + FEE_DENOMINATOR - 1) \div FEE_DENOMINATOR
PlatformCut_PerMille(amount) == (amount * platformFee) \div (FEE_DENOMINATOR \div 10)
PlatformCut_AtDeployment(amount) == (amount * INITIAL_FEE) \div FEE_DENOMINATOR
PlatformCut(amount) == (amount * platformFee) \div FEE_DENOMINATOR
CreatorAmount_Gross(amount) == amount
CreatorAmount(amount) == amount - PlatformCut(amount)

(* ------------------- how a transaction begins and ends ----------------- *)
\* a transaction that reverts before any external call: nothing changes
Fail(op, caller, args, err) ==
    /\ last' = Call(op, caller, args, err, <<>>, NoCall, World)
    /\ UNCHANGED <<ledger, token, status, now, others, frame, processed, chargedAt, feesDue>>

\* nonReentrant's entry, then the external token call is issued:
\* cut/net are the split computed before the call, party/amount the transfer
Enter(op, caller, args, cut, net, party, amount) ==
    /\ status' = ENTERED
    /\ frame' = [op |-> op, caller |-> caller, args |-> args, snap |-> Ledger,
                 cut |-> cut, net |-> net, party |-> party, amount |-> amount,
                 nested |-> 0, inner |-> NoCall, events |-> <<>>]
    /\ last' = Call(op, caller, args, "pending", <<>>, NoCall, World)
    /\ UNCHANGED <<token, now, others, processed, chargedAt, feesDue>>

\* the token call returned true and the rest of the function ran:
\* nonReentrant's exit
Leave(events) ==
    /\ status' = NOT_ENTERED
    /\ frame' = NoFrame
    /\ last' = Call(frame.op, frame.caller, frame.args, "ok",
                    frame.events \o events, frame.inner, last.pre)
    /\ UNCHANGED <<now, others>>

Revert_KeepWrites(err) ==
    /\ status' = NOT_ENTERED
    /\ frame' = NoFrame
    /\ last' = Call(frame.op, frame.caller, frame.args, err, <<>>, frame.inner, last.pre)
    /\ UNCHANGED <<ledger, token, now, others, processed, chargedAt, feesDue>>

Revert_KeepLock(err) ==
    /\ Restore(frame.snap)
    /\ frame' = NoFrame
    /\ last' = Call(frame.op, frame.caller, frame.args, err, <<>>, frame.inner, last.pre)
    /\ UNCHANGED <<status, token, now, others, processed, chargedAt, feesDue>>

\* the transaction reverts inside or after the token call: storage, the
\* guard and the token are as they were when the transaction began
Revert(err) ==
    /\ Restore(frame.snap)
    /\ status' = NOT_ENTERED
    /\ frame' = NoFrame
    /\ last' = Call(frame.op, frame.caller, frame.args, err, <<>>, frame.inner, last.pre)
    /\ UNCHANGED <<token, now, others, processed, chargedAt, feesDue>>

(* --------------------------- createSubscription ------------------------ *)
createSubscriptionError_NoIntervalCheck(caller, subscriber, creator, amount, interval) ==
    IF ~onlyAgent(caller) THEN "UnauthorizedAgent"
    ELSE IF ~nonReentrant THEN "Reentrant"
    ELSE IF creator = NULL THEN "InvalidAddress"
    ELSE IF subscriber = NULL THEN "InvalidAddress"
    ELSE IF amount = 0 THEN "InvalidAmount"
    ELSE IF Sub(SubId(subscriber, creator, now, amount)).subscriber # NULL
         THEN "SubscriptionAlreadyExists"
    ELSE "ok"

createSubscriptionError(caller, subscriber, creator, amount, interval) ==
    IF ~onlyAgent(caller) THEN "UnauthorizedAgent"
    ELSE IF ~nonReentrant THEN "Reentrant"
    ELSE IF creator = NULL THEN "InvalidAddress"
    ELSE IF subscriber = NULL THEN "InvalidAddress"
    ELSE IF amount = 0 THEN "InvalidAmount"
    ELSE IF interval < ONE_DAY THEN "InvalidInterval"
    ELSE IF Sub(SubId(subscriber, creator, now, amount)).subscriber # NULL
         THEN "SubscriptionAlreadyExists"
    ELSE "ok"

createSubscription(caller, subscriber, creator, amount, interval) ==
    LET args == <<subscriber, creator, amount, interval>>
        err == createSubscriptionError(caller, subscriber, creator, amount, interval)
    IN  /\ Idle
        /\ IF err # "ok"
           THEN Fail("createSubscription", caller, args, err)
           ELSE /\ Records < MaxRecords
                /\ Enter("createSubscription", caller, args, PlatformCut(amount),
                         CreatorAmount(amount), subscriber, amount)
                /\ UNCHANGED ledger

NewSubscription_CountZero(subscriber, creator, amount, interval) ==
    [subscriber |-> subscriber, creator |-> creator, amount |-> amount,
     interval |-> interval, nextPaymentDue |-> now + interval, active |-> TRUE,
     totalPaid |-> amount, paymentsCount |-> 0]

NewSubscription(subscriber, creator, amount, interval) ==
    [subscriber |-> subscriber, creator |-> creator, amount |-> amount,
     interval |-> interval, nextPaymentDue |-> now + interval, active |-> TRUE,
     totalPaid |-> amount, paymentsCount |-> 1]

createSubscriptionReturn ==
    LET subscriber == frame.args[1]
        creator == frame.args[2]
        amount == frame.args[3]
        interval == frame.args[4]
        id == SubId(subscriber, creator, now, amount)
    IN  /\ frame.op = "createSubscription"
        /\ TransferFromOk(subscriber, amount)
        /\ PullTokens(subscriber, amount)
        /\ creatorBalances' = [creatorBalances EXCEPT ![creator] = @ + frame.net]
        /\ subscriptions' = (id :> NewSubscription(subscriber, creator, amount, interval))
                                @@ subscriptions
        /\ userSubscriptions' = [userSubscriptions EXCEPT ![subscriber] = Append(@, id)]
        /\ creatorSubscriptions' = [creatorSubscriptions EXCEPT ![creator] = Append(@, id)]
        /\ processed' = (id :> 0) @@ processed
        /\ chargedAt' = (id :> now) @@ chargedAt
        /\ feesDue' = feesDue + frame.cut
        /\ Leave(<<"SubscriptionCreated", "SubscriptionPaymentProcessed">>)
        /\ UNCHANGED <<owner, agentWallet, platformFee, escrows, totalTipsReceived>>

(* ----------------------- processSubscriptionPayment -------------------- *)
processSubscriptionPaymentError_NoActiveCheck(caller, id) ==
    IF ~onlyAgent(caller) THEN "UnauthorizedAgent"
    ELSE IF ~nonReentrant THEN "Reentrant"
    ELSE IF id \notin DOMAIN subscriptions THEN "SubscriptionNotActive"
    ELSE IF now < Sub(id).nextPaymentDue THEN "PaymentNotDue"
    ELSE "ok"

processSubscriptionPaymentError_NoDueCheck(caller, id) ==
    IF ~onlyAgent(caller) THEN "UnauthorizedAgent"
    ELSE IF ~nonReentrant THEN "Reentrant"
    ELSE IF ~Sub(id).active THEN "SubscriptionNotActive"
    ELSE "ok"

processSubscriptionPaymentError(caller, id) ==
    IF ~onlyAgent(caller) THEN "UnauthorizedAgent"
    ELSE IF ~nonReentrant THEN "Reentrant"
    ELSE IF ~Sub(id).active THEN "SubscriptionNotActive"
    ELSE IF now < Sub(id).nextPaymentDue THEN "PaymentNotDue"
    ELSE "ok"

processSubscriptionPayment(caller, id) ==
    LET err == processSubscriptionPaymentError(caller, id)
    IN  /\ Idle
        /\ IF err # "ok"
           THEN Fail("processSubscriptionPayment", caller, <<id>>, err)
           ELSE /\ Enter("processSubscriptionPayment", caller, <<id>>,
                         PlatformCut(Sub(id).amount), CreatorAmount(Sub(id).amount),
                         Sub(id).subscriber, Sub(id).amount)
                /\ UNCHANGED ledger

NextPaymentDue_FromDue(sub) == sub.nextPaymentDue + sub.interval
\* sub.nextPaymentDue = block.timestamp + sub.interval
NextPaymentDue(sub) == now + sub.interval

processSubscriptionPaymentReturn ==
    LET id == frame.args[1]
        sub == subscriptions[id]
    IN  /\ frame.op = "processSubscriptionPayment"
        /\ TransferFromOk(sub.subscriber, sub.amount)
        /\ PullTokens(sub.subscriber, sub.amount)
        /\ creatorBalances' = [creatorBalances EXCEPT ![sub.creator] = @ + frame.net]
        /\ subscriptions' = [subscriptions EXCEPT
                                ![id].nextPaymentDue = NextPaymentDue(sub),
                                ![id].totalPaid = @ + sub.amount,
                                ![id].paymentsCount = @ + 1]
        /\ processed' = [processed EXCEPT ![id] = @ + 1]
        /\ chargedAt' = [chargedAt EXCEPT ![id] = now]
        /\ feesDue' = feesDue + frame.cut
        /\ Leave(<<"SubscriptionPaymentProcessed">>)
        /\ UNCHANGED <<owner, agentWallet, platformFee, userSubscriptions,
                       creatorSubscriptions, escrows, totalTipsReceived>>

(* ------------------------------ isPaymentDue --------------------------- *)
isPaymentDue_IgnoreActive(id) == now >= Sub(id).nextPaymentDue
\* return sub.active && block.timestamp >= sub.nextPaymentDue
isPaymentDue(id) == Sub(id).active /\ now >= Sub(id).nextPaymentDue

(* --------------------------- cancelSubscription ------------------------ *)
\* msg.sender != sub.subscriber && msg.sender != owner() reverts
CanCancel_AgentToo(caller, id) ==
    caller = Sub(id).subscriber \/ caller = owner \/ caller = agentWallet
CanCancel_OwnerOnly(caller, id) == caller = owner
CanCancel(caller, id) == caller = Sub(id).subscriber \/ caller = owner

cancelSubscriptionError(caller, id) ==
    IF ~CanCancel(caller, id) THEN "UnauthorizedUser"
    ELSE IF ~Sub(id).active THEN "SubscriptionNotActive"
    ELSE "ok"

cancelSubscriptionEffect_Delete(id) ==
    /\ subscriptions' = [subscriptions EXCEPT ![id] = ZeroSub]
    /\ UNCHANGED <<owner, agentWallet, platformFee, userSubscriptions,
                   creatorSubscriptions, escrows, creatorBalances, totalTipsReceived>>

\* the function body once its checks have passed
cancelSubscriptionEffect(id) ==
    /\ subscriptions' = [subscriptions EXCEPT ![id].active = FALSE]
    /\ UNCHANGED <<owner, agentWallet, platformFee, userSubscriptions,
                   creatorSubscriptions, escrows, creatorBalances, totalTipsReceived>>

cancelSubscription(caller, id) ==
    LET err == cancelSubscriptionError(caller, id)
    IN  /\ Idle
        /\ IF err # "ok"
           THEN Fail("cancelSubscription", caller, <<id>>, err)
           ELSE /\ cancelSubscriptionEffect(id)
                /\ last' = Call("cancelSubscription", caller, <<id>>, "ok",
                                <<"SubscriptionCancelled">>, NoCall, World)
                /\ UNCHANGED <<token, status, now, others, frame, processed, chargedAt, feesDue>>

(* --------------------------------- sendTip ----------------------------- *)
sendTipError_NoAmountCheck(caller, user, creator, amount) ==
    IF ~onlyAgent(caller) THEN "UnauthorizedAgent"
    ELSE IF ~nonReentrant THEN "Reentrant"
    ELSE IF creator = NULL THEN "InvalidAddress"
    ELSE IF user = NULL THEN "InvalidAddress"
    ELSE "ok"

sendTipError(caller, user, creator, amount) ==
    IF ~onlyAgent(caller) THEN "UnauthorizedAgent"
    ELSE IF ~nonReentrant THEN "Reentrant"
    ELSE IF creator = NULL THEN "InvalidAddress"
    ELSE IF user = NULL THEN "InvalidAddress"
    ELSE IF amount = 0 THEN "InvalidAmount"
    ELSE "ok"

sendTip(caller, user, creator, amount, contentId) ==
    LET args == <<user, creator, amount, contentId>>
        err == sendTipError(caller, user, creator, amount)
    IN  /\ Idle
        /\ IF err # "ok"
           THEN Fail("sendTip", caller, args, err)
           ELSE /\ Enter("sendTip", caller, args, PlatformCut(amount),
                         CreatorAmount(amount), user, amount)
                /\ UNCHANGED ledger

sendTipReturn ==
    LET user == frame.args[1]
        creator == frame.args[2]
        amount == frame.args[3]
    IN  /\ frame.op = "sendTip"
        /\ TransferFromOk(user, amount)
        /\ PullTokens(user, amount)
        /\ creatorBalances' = [creatorBalances EXCEPT ![creator] = @ + frame.net]
        /\ totalTipsReceived' = [totalTipsReceived EXCEPT ![creator] = @ + amount]
        /\ Leave(<<"TipSent">>)
        /\ feesDue' = feesDue + frame.cut
        /\ UNCHANGED <<owner, agentWallet, platformFee, subscriptions, userSubscriptions,
                       creatorSubscriptions, escrows, processed, chargedAt>>

(* ----------------------- createMicropaymentEscrow ---------------------- *)
createMicropaymentEscrowError_NoExistsCheck(caller, creator, amount, contentId) ==
    IF ~nonReentrant THEN "Reentrant"
    ELSE IF creator = NULL THEN "InvalidAddress"
    ELSE IF amount = 0 THEN "InvalidAmount"
    ELSE "ok"

createMicropaymentEscrowError(caller, creator, amount, contentId) ==
    IF ~nonReentrant THEN "Reentrant"
    ELSE IF creator = NULL THEN "InvalidAddress"
    ELSE IF amount = 0 THEN "InvalidAmount"
    ELSE IF Esc(EscrowId(caller, creator, contentId, now)).payer # NULL
         THEN "EscrowAlreadyExists"
    ELSE "ok"

createMicropaymentEscrow(caller, creator, amount, contentId) ==
    LET args == <<creator, amount, contentId>>
        err == createMicropaymentEscrowError(caller, creator, amount, contentId)
    IN  /\ Idle
        /\ IF err # "ok"
           THEN Fail("createMicropaymentEscrow", caller, args, err)
           ELSE /\ EscrowId(caller, creator, contentId, now) \in DOMAIN escrows
                   \/ Records < MaxRecords
                /\ Enter("createMicropaymentEscrow", caller, args, 0, 0, caller, amount)
                /\ UNCHANGED ledger

createMicropaymentEscrowReturn ==
    LET payer == frame.caller
        creator == frame.args[1]
        amount == frame.args[2]
        contentId == frame.args[3]
        id == EscrowId(payer, creator, contentId, now)
    IN  /\ frame.op = "createMicropaymentEscrow"
        /\ TransferFromOk(payer, amount)
        /\ PullTokens(payer, amount)
        /\ escrows' = (id :> [payer |-> payer, creator |-> creator, amount |-> amount,
                              createdAt |-> now, released |-> FALSE,
                              contentId |-> contentId]) @@ escrows
        /\ Leave(<<"MicropaymentEscrowed">>)
        /\ UNCHANGED <<owner, agentWallet, platformFee, subscriptions, userSubscriptions,
                       creatorSubscriptions, creatorBalances, totalTipsReceived, processed, chargedAt, feesDue>>

(* -------------------------- releaseMicropayment ------------------------ *)
\* msg.sender != escrow.payer && msg.sender != owner() reverts
CanRelease_CreatorToo(caller, id) ==
    caller = Esc(id).payer \/ caller = owner \/ caller = Esc(id).creator
CanRelease(caller, id) == caller = Esc(id).payer \/ caller = owner

releaseMicropaymentError_NoReleasedCheck(caller, id) ==
    IF ~nonReentrant THEN "Reentrant"
    ELSE IF ~CanRelease(caller, id) THEN "UnauthorizedUser"
    ELSE "ok"

releaseMicropaymentError(caller, id) ==
    IF ~nonReentrant THEN "Reentrant"
    ELSE IF ~CanRelease(caller, id) THEN "UnauthorizedUser"
    ELSE IF Esc(id).released THEN "EscrowAlreadyReleased"
    ELSE "ok"

\* no external call: the whole function is one step
releaseMicropayment(caller, id) ==
    LET err == releaseMicropaymentError(caller, id)
        escrow == Esc(id)
    IN  /\ Idle
        /\ IF err # "ok"
           THEN Fail("releaseMicropayment", caller, <<id>>, err)
           ELSE /\ id \in DOMAIN escrows \/ Records < MaxRecords
                /\ escrows' = (id :> [escrow EXCEPT !.released = TRUE]) @@ escrows
                /\ creatorBalances' = [creatorBalances EXCEPT
                                          ![escrow.creator] = @ + CreatorAmount(escrow.amount)]
                /\ last' = Call("releaseMicropayment", caller, <<id>>, "ok",
                                <<"MicropaymentReleased">>, NoCall, World)
                /\ UNCHANGED <<owner, agentWallet, platformFee, subscriptions,
                               userSubscriptions, creatorSubscriptions, totalTipsReceived,
                               token, status, now, others, frame, processed, chargedAt>>
                /\ feesDue' = feesDue + PlatformCut(escrow.amount)

(* ------------------------- withdrawCreatorBalance ---------------------- *)
withdrawCreatorBalanceError(caller) ==
    IF ~nonReentrant THEN "Reentrant"
    ELSE IF creatorBalances[caller] = 0 THEN "NoBalanceToWithdraw"
    ELSE "ok"

BalanceDuringTransfer_Unchanged(balance) == balance
\* the value creatorBalances[msg.sender] holds while the token transfer runs
BalanceDuringTransfer(balance) == 0

withdrawCreatorBalance(caller) ==
    LET err == withdrawCreatorBalanceError(caller)
        balance == creatorBalances[caller]
    IN  /\ Idle
        /\ IF err # "ok"
           THEN Fail("withdrawCreatorBalance", caller, <<>>, err)
           ELSE /\ creatorBalances' = [creatorBalances EXCEPT
                                          ![caller] = BalanceDuringTransfer(balance)]
                /\ Enter("withdrawCreatorBalance", caller, <<>>, 0, 0, caller, balance)
                /\ UNCHANGED <<owner, agentWallet, platformFee, subscriptions,
                               userSubscriptions, creatorSubscriptions, escrows,
                               totalTipsReceived>>

withdrawCreatorBalanceReturn ==
    /\ frame.op = "withdrawCreatorBalance"
    /\ TransferOk(frame.amount)
    /\ PayTokens(frame.party, frame.amount)
    /\ Leave(<<"CreatorWithdrawal">>)
    /\ UNCHANGED <<ledger, processed, chargedAt, feesDue>>

(* -------------------------- withdrawPlatformFees ----------------------- *)
withdrawPlatformFeesError(caller, amount) ==
    IF ~onlyOwner(caller) THEN "OwnableUnauthorizedAccount"
    ELSE IF ~nonReentrant THEN "Reentrant"
    ELSE "ok"

withdrawPlatformFees(caller, amount) ==
    LET err == withdrawPlatformFeesError(caller, amount)
    IN  /\ Idle
        /\ IF err # "ok"
           THEN Fail("withdrawPlatformFees", caller, <<amount>>, err)
           ELSE /\ Enter("withdrawPlatformFees", caller, <<amount>>, 0, 0, owner, amount)
                /\ UNCHANGED ledger

withdrawPlatformFeesReturn ==
    /\ frame.op = "withdrawPlatformFees"
    /\ TransferOk(frame.amount)
    /\ PayTokens(frame.party, frame.amount)
    /\ Leave(<<>>)
    /\ feesDue' = feesDue - frame.amount
    /\ UNCHANGED <<ledger, processed, chargedAt>>

(* ------------------- setAgentWallet, updatePlatformFee ----------------- *)
\* the event of a change of agent: the agent replaced and the one installed
AgentWalletUpdated(oldAgent, newAgent) == <<"AgentWalletUpdated", oldAgent, newAgent>>

setAgentWalletError_NoOwnerCheck(caller, newAgent) ==
    IF newAgent = NULL THEN "InvalidAddress" ELSE "ok"

setAgentWalletError(caller, newAgent) ==
    IF ~onlyOwner(caller) THEN "OwnableUnauthorizedAccount"
    ELSE IF newAgent = NULL THEN "InvalidAddress"
    ELSE "ok"

setAgentWalletEffect(newAgent) ==
    /\ agentWallet' = newAgent
    /\ UNCHANGED <<owner, platformFee, subscriptions, userSubscriptions,
                   creatorSubscriptions, escrows, creatorBalances, totalTipsReceived>>

setAgentWallet(caller, newAgent) ==
    LET err == setAgentWalletError(caller, newAgent)
    IN  /\ Idle
        /\ IF err # "ok"
           THEN Fail("setAgentWallet", caller, <<newAgent>>, err)
           ELSE /\ setAgentWalletEffect(newAgent)
                /\ last' = Call("setAgentWallet", caller, <<newAgent>>, "ok",
                                <<AgentWalletUpdated(agentWallet, newAgent)>>,
                                NoCall, World)
                /\ UNCHANGED <<token, status, now, others, frame, processed, chargedAt, feesDue>>

updatePlatformFeeError_NoCeiling(caller, newFee) ==
    IF ~onlyOwner(caller) THEN "OwnableUnauthorizedAccount" ELSE "ok"

updatePlatformFeeError(caller, newFee) ==
    IF ~onlyOwner(caller) THEN "OwnableUnauthorizedAccount"
    ELSE IF ~(newFee <= MAX_FEE) THEN "Fee cannot exceed 10%"
    ELSE "ok"

updatePlatformFeeEffect(newFee) ==
    /\ platformFee' = newFee
    /\ UNCHANGED <<owner, agentWallet, subscriptions, userSubscriptions,
                   creatorSubscriptions, escrows, creatorBalances, totalTipsReceived>>

updatePlatformFee(caller, newFee) ==
    LET err == updatePlatformFeeError(caller, newFee)
    IN  /\ Idle
        /\ IF err # "ok"
           THEN Fail("updatePlatformFee", caller, <<newFee>>, err)
           ELSE /\ updatePlatformFeeEffect(newFee)
                /\ last' = Call("updatePlatformFee", caller, <<newFee>>, "ok",
                                <<"PlatformFeeUpdated">>, NoCall, World)
                /\ UNCHANGED <<token, status, now, others, frame, processed, chargedAt, feesDue>>

(* -------- calls the token makes back into the ledger while it runs ------ *)
InCall == frame.op # "none" /\ frame.nested < MaxNested

Nest(op, caller, args, res, events) ==
    /\ frame' = [frame EXCEPT !.nested = @ + 1,
                              !.inner = [op |-> op, caller |-> caller,
                                         args |-> args, res |-> res],
                              !.events = @ \o events]
    /\ UNCHANGED <<token, status, now, others, last, processed, chargedAt, feesDue>>

\* the entry points that carry nonReentrant
GuardedOps == {"createSubscription", "processSubscriptionPayment", "sendTip",
               "createMicropaymentEscrow", "releaseMicropayment",
               "withdrawCreatorBalance", "withdrawPlatformFees"}

\* the id a call back into the ledger names: the one the suspended call is
\* about when there is one, else an id nothing was stored under
UnknownId == <<NULL, NULL, 0, 0>>
SomeSubId == IF frame.op = "processSubscriptionPayment" THEN frame.args[1]
             ELSE IF DOMAIN subscriptions # {} THEN CHOOSE i \in DOMAIN subscriptions : TRUE
             ELSE UnknownId
SomeEscrowId == IF DOMAIN escrows # {} THEN CHOOSE i \in DOMAIN escrows : TRUE
                ELSE UnknownId

\* what a guarded entry point answers to caller (its modifiers run first)
GuardedError(op, caller) ==
    CASE op = "createSubscription" ->
            createSubscriptionError(caller, caller, caller, UnitAmount, ONE_DAY)
      [] op = "processSubscriptionPayment" ->
            processSubscriptionPaymentError(caller, SomeSubId)
      [] op = "sendTip" -> sendTipError(caller, caller, caller, UnitAmount)
      [] op = "createMicropaymentEscrow" ->
            createMicropaymentEscrowError(caller, caller, UnitAmount, "content-1")
      [] op = "releaseMicropayment" -> releaseMicropaymentError(caller, SomeEscrowId)
      [] op = "withdrawCreatorBalance" -> withdrawCreatorBalanceError(caller)
      [] op = "withdrawPlatformFees" -> withdrawPlatformFeesError(caller, UnitAmount)

ReenterGuarded(caller, op) ==
    /\ InCall
    /\ Nest(op, caller, <<>>, GuardedError(op, caller), <<>>)
    /\ UNCHANGED ledger

ReenterCancelSubscription(caller, id) ==
    LET err == cancelSubscriptionError(caller, id)
    IN  /\ InCall
        /\ IF err # "ok"
           THEN Nest("cancelSubscription", caller, <<id>>, err, <<>>) /\ UNCHANGED ledger
           ELSE /\ cancelSubscriptionEffect(id)
                /\ Nest("cancelSubscription", caller, <<id>>, "ok",
                        <<"SubscriptionCancelled">>)

ReenterSetAgentWallet(caller, newAgent) ==
    LET err == setAgentWalletError(caller, newAgent)
    IN  /\ InCall
        /\ IF err # "ok"
           THEN Nest("setAgentWallet", caller, <<newAgent>>, err, <<>>) /\ UNCHANGED ledger
           ELSE /\ setAgentWalletEffect(newAgent)
                /\ Nest("setAgentWallet", caller, <<newAgent>>, "ok",
                        <<AgentWalletUpdated(agentWallet, newAgent)>>)

ReenterUpdatePlatformFee(caller, newFee) ==
    LET err == updatePlatformFeeError(caller, newFee)
    IN  /\ InCall
        /\ IF err # "ok"
           THEN Nest("updatePlatformFee", caller, <<newFee>>, err, <<>>) /\ UNCHANGED ledger
           ELSE /\ updatePlatformFeeEffect(newFee)
                /\ Nest("updatePlatformFee", caller, <<newFee>>, "ok",
                        <<"PlatformFeeUpdated">>)

(* ------------------- the token call does not succeed ------------------- *)
PullOps == {"createSubscription", "processSubscriptionPayment", "sendTip",
            "createMicropaymentEscrow"}

\* the transfer the suspended call asked for can be made
TokenCallOk ==
    IF frame.op \in PullOps THEN TransferFromOk(frame.party, frame.amount)
    ELSE TransferOk(frame.amount)

\* insufficient balance or allowance: transfer/transferFrom gives false
TokenFails ==
    /\ frame.op # "none"
    /\ ~TokenCallOk
    /\ Revert("TransferFailed")

\* the token does not catch the failure of its call back into the ledger:
\* the failure propagates and the whole transaction reverts with it
TokenPropagates ==
    /\ frame.op # "none"
    /\ frame.inner.res \notin {"none", "ok"}
    /\ Revert(frame.inner.res)

(* ----------------------------- environment ----------------------------- *)
\* a later block
Tick ==
    /\ Idle
    /\ now < DeployTime + MaxTicks * ONE_DAY
    /\ now' = now + ONE_DAY
    /\ UNCHANGED last
    /\ UNCHANGED <<ledger, token, status, frame, processed, chargedAt, feesDue>>
    /\ UNCHANGED others

\* the receipt is dropped; the chain is as the transaction left it
NoReceipt == Call("none", NULL, <<>>, "none", <<>>, NoCall, <<>>)
NextTransaction ==
    /\ frame.op = "none"
    /\ last.op # "none"
    /\ last' = NoReceipt
    /\ UNCHANGED <<ledger, token, status, now, others, frame, processed, chargedAt, feesDue>>

(* --------------------------- the state machine ------------------------- *)
\* deployment by identity 1 with identity 2 as the agent wallet; the funded
\* identities hold InitBal tokens and have approved the ledger for as much
Init ==
    /\ owner = 1
    /\ agentWallet = 2
    /\ platformFee = INITIAL_FEE
    /\ subscriptions = <<>>
    /\ userSubscriptions = [a \in Addr |-> <<>>]
    /\ creatorSubscriptions = [a \in Addr |-> <<>>]
    /\ escrows = <<>>
    /\ creatorBalances = [a \in {NULL} \cup Addr |-> 0]
    /\ totalTipsReceived = [a \in Addr |-> 0]
    /\ status = NOT_ENTERED
    /\ tokenBalance = [a \in Holders |-> IF a \in Funded THEN InitBal ELSE 0]
    /\ tokenAllowance = [a \in Addr |-> IF a \in Funded THEN InitBal ELSE 0]
    /\ now = DeployTime
    /\ frame = NoFrame
    /\ last = Call("constructor", 1, <<2>>, "ok",
                   <<AgentWalletUpdated(NULL, 2)>>, NoCall, <<>>)
    /\ processed = <<>>
    /\ chargedAt = <<>>
    /\ feesDue = 0
    /\ job = NoJob
    /\ NotDeployedTipping

\* the identities the entry points are offered as arguments
Payers == {NULL} \cup Funded
Creators == {NULL, 2}
NewAgents == {NULL} \cup Funded
SubIdInputs == DOMAIN subscriptions \cup {UnknownId}
\* a stored escrow, or one a payer could create in this block
EscrowIdInputs == DOMAIN escrows \cup
                  {EscrowId(p, c, k, now) : p \in Funded, c \in Creators \ {NULL}, k \in ContentIds}

\* the transactions, and the token call of each returning
Transactions ==
    \/ \E c \in Addr, s \in Payers, r \in Creators, a \in Amounts, i \in Intervals :
          createSubscription(c, s, r, a, i)
    \/ createSubscriptionReturn
    \/ \E c \in Addr, id \in SubIdInputs : processSubscriptionPayment(c, id)
    \/ processSubscriptionPaymentReturn
    \/ \E c \in Addr, id \in SubIdInputs : cancelSubscription(c, id)
    \/ \E c \in Addr, u \in Payers, r \in Creators, a \in Amounts, k \in ContentIds :
          sendTip(c, u, r, a, k)
    \/ sendTipReturn
    \/ \E c \in Addr, r \in Creators, a \in Amounts, k \in ContentIds :
          createMicropaymentEscrow(c, r, a, k)
    \/ createMicropaymentEscrowReturn
    \/ \E c \in Addr, id \in EscrowIdInputs : releaseMicropayment(c, id)
    \/ \E c \in Addr : withdrawCreatorBalance(c)
    \/ withdrawCreatorBalanceReturn
    \/ \E c \in Addr, a \in Amounts : withdrawPlatformFees(c, a)
    \/ withdrawPlatformFeesReturn
    \/ \E c \in Addr, n \in NewAgents : setAgentWallet(c, n)
    \/ \E c \in Addr, f \in Fees : updatePlatformFee(c, f)
    \/ TokenFails
    \/ Tick
    \/ NextTransaction

\* the ledger on a token that makes no calls back (USDC)
Next == Transactions

Spec == Init /\ [][Next]_vars

\* a token with transfer hooks: while a transfer runs, its counterparty is
\* called and may call back into the ledger
Reentries ==
    \/ \E op \in GuardedOps : ReenterGuarded(frame.party, op)
    \/ \E id \in SubIdInputs : ReenterCancelSubscription(frame.party, id)
    \/ \E n \in NewAgents : ReenterSetAgentWallet(frame.party, n)
    \/ \E f \in Fees : ReenterUpdatePlatformFee(frame.party, f)
    \/ TokenPropagates

NextReentrant == Transactions \/ Reentries

SpecReentrant == Init /\ [][NextReentrant]_vars

(* ------------------- a 5.00 USDC monthly subscription ------------------ *)
ScenarioAmount == 5 * 1000000       \* 5.00 units of a 6-decimal token
ScenarioInterval == 30 * ONE_DAY
ScenarioFee == (ScenarioAmount * INITIAL_FEE) \div FEE_DENOMINATOR

\* the ledger as deployed, at fee rate fee (250 at deployment, any rate up to
\* MAX_FEE after updatePlatformFee), the funded identities holding balance
Deployed(fee, balance) ==
    /\ owner = 1
    /\ agentWallet = 2
    /\ platformFee = fee
    /\ subscriptions = <<>>
    /\ userSubscriptions = [a \in Addr |-> <<>>]
    /\ creatorSubscriptions = [a \in Addr |-> <<>>]
    /\ escrows = <<>>
    /\ creatorBalances = [a \in {NULL} \cup Addr |-> 0]
    /\ totalTipsReceived = [a \in Addr |-> 0]
    /\ status = NOT_ENTERED
    /\ tokenBalance = [a \in Holders |-> IF a \in Funded THEN balance ELSE 0]
    /\ tokenAllowance = [a \in Addr |-> IF a \in Funded THEN balance ELSE 0]
    /\ now = DeployTime
    /\ frame = NoFrame
    /\ last = Call("constructor", 1, <<2>>, "ok",
                   <<AgentWalletUpdated(NULL, 2)>>, NoCall, <<>>)
    /\ processed = <<>>
    /\ chargedAt = <<>>
    /\ feesDue = 0
    /\ job = NoJob
    /\ NotDeployedTipping

InitScenario == Deployed(INITIAL_FEE, ScenarioAmount)

NextScenario ==
    \/ \E c \in Addr, s \in Funded, r \in Creators \ {NULL} :
          createSubscription(c, s, r, ScenarioAmount, ScenarioInterval)
    \/ createSubscriptionReturn
    \/ \E c \in Addr, id \in SubIdInputs : processSubscriptionPayment(c, id)
    \/ \E c \in Addr, id \in SubIdInputs : cancelSubscription(c, id)
    \/ \E c \in Addr : withdrawCreatorBalance(c)
    \/ withdrawCreatorBalanceReturn
    \/ \E c \in Addr : withdrawPlatformFees(c, ScenarioFee)
    \/ withdrawPlatformFeesReturn
    \/ TokenFails
    \/ Tick
    \/ NextTransaction

SpecScenario == InitScenario /\ [][NextScenario]_vars

(* --------------- the same request twice in one block ------------------- *)
\* two valid intervals, so that a repeated request can differ in its interval
ValidIntervals == {ONE_DAY, 2 * ONE_DAY}

NextDuplicate ==
    \/ \E c \in Addr, s \in Funded, r \in Creators \ {NULL}, i \in ValidIntervals :
          createSubscription(c, s, r, UnitAmount, i)
    \/ createSubscriptionReturn
    \/ \E c \in Addr, id \in SubIdInputs : cancelSubscription(c, id)
    \/ \E c \in Addr, r \in Creators \ {NULL}, a \in Amounts, k \in ContentIds :
          createMicropaymentEscrow(c, r, a, k)
    \/ createMicropaymentEscrowReturn
    \/ \E c \in Addr, id \in EscrowIdInputs : releaseMicropayment(c, id)
    \/ TokenFails
    \/ Tick
    \/ NextTransaction

SpecDuplicate == Init /\ [][NextDuplicate]_vars

(* ---------------- the fee split at every rate and amount --------------- *)
FeeRates == 0 .. MAX_FEE
\* 2.000001 units of the 6-decimal token
LargeAmount == 2 * 1000000 + 1
SplitAmounts == (1 .. MaxSplitAmount) \cup {LargeAmount}

\* any admissible fee rate is in force; the payer holds one amount
InitSplit == \E r \in FeeRates, a \in SplitAmounts : Deployed(r, a)

\* the payer's whole holding is settled as a subscription payment, as a tip
\* or through an escrow and its release
NextSplit ==
    \/ \E s \in Funded, r \in Creators \ {NULL} :
          tokenBalance[s] > 0 /\ createSubscription(agentWallet, s, r, tokenBalance[s], ONE_DAY)
    \/ createSubscriptionReturn
    \/ \E s \in Funded, r \in Creators \ {NULL}, k \in ContentIds :
          tokenBalance[s] > 0 /\ sendTip(agentWallet, s, r, tokenBalance[s], k)
    \/ sendTipReturn
    \/ \E s \in Funded, r \in Creators \ {NULL}, k \in ContentIds :
          tokenBalance[s] > 0 /\ createMicropaymentEscrow(s, r, tokenBalance[s], k)
    \/ createMicropaymentEscrowReturn
    \/ \E s \in Funded, id \in DOMAIN escrows : releaseMicropayment(s, id)
    \/ NextTransaction

SpecSplit == InitSplit /\ [][NextSplit]_vars

(* ------------- a fee change between deposit and release ---------------- *)
\* escrows are deposited while the deployment rate is in force; the owner
\* may change the rate before they are released
NextRateChange ==
    \/ \E c \in Addr, r \in Creators, a \in Amounts, k \in ContentIds :
          platformFee = INITIAL_FEE /\ createMicropaymentEscrow(c, r, a, k)
    \/ createMicropaymentEscrowReturn
    \/ \E c \in Addr, f \in Fees : updatePlatformFee(c, f)
    \/ \E c \in Addr, id \in EscrowIdInputs : releaseMicropayment(c, id)
    \/ TokenFails
    \/ Tick
    \/ NextTransaction

SpecRateChange == Init /\ [][NextRateChange]_vars

(* ----------------------- several creators at once ---------------------- *)
\* the identities that hold no tokens are the creators; the agent settles
\* payments and tips, payers deposit and release escrows, anyone withdraws
Payees == Addr \ Funded

NextCreators ==
    \/ \E s \in Funded, r \in Payees :
          createSubscription(agentWallet, s, r, UnitAmount, ONE_DAY)
    \/ createSubscriptionReturn
    \/ \E id \in DOMAIN subscriptions : processSubscriptionPayment(agentWallet, id)
    \/ processSubscriptionPaymentReturn
    \/ \E c \in Addr, id \in DOMAIN subscriptions : cancelSubscription(c, id)
    \/ \E u \in Funded, r \in Payees, k \in ContentIds :
          sendTip(agentWallet, u, r, UnitAmount, k)
    \/ sendTipReturn
    \/ \E c \in Funded, r \in Payees, k \in ContentIds :
          createMicropaymentEscrow(c, r, UnitAmount, k)
    \/ createMicropaymentEscrowReturn
    \/ \E c \in Addr, id \in DOMAIN escrows : releaseMicropayment(c, id)
    \/ \E c \in Addr : withdrawCreatorBalance(c)
    \/ withdrawCreatorBalanceReturn
    \/ \E a \in Amounts : withdrawPlatformFees(owner, a)
    \/ withdrawPlatformFeesReturn
    \/ \E n \in Funded : setAgentWallet(owner, n)
    \/ updatePlatformFee(owner, MAX_FEE)
    \/ TokenFails
    \/ Tick
    \/ NextTransaction

SpecCreators == Init /\ [][NextCreators]_vars

(* ------------------ AIPaymentAgent.processPaymentsAutomatically -------- *)
\* the wallet the agent service signs with (AGENT_PRIVATE_KEY)
AgentKey == 2
\* the lists of subscription ids a run is given
MaxJobIds == 2
JobLists == UNION {[1 .. n -> SubIdInputs] : n \in 0 .. MaxJobIds}

\* one pass of the loop body is over: the next id, or the end of the list
NextId(entry) ==
    [job EXCEPT !.log = Append(@, entry), !.i = @ + 1,
                !.pc = IF job.i + 1 > Len(job.ids) THEN "done" ELSE "check"]
Caught_Rethrow(entry) == [job EXCEPT !.log = Append(@, entry), !.pc = "thrown"]
\* catch (error) { console.error(...) }: the loop goes on
Caught(entry) == NextId(entry)

Entry(due, sent, outcome) ==
    [id |-> job.ids[job.i], due |-> due, sent |-> sent, outcome |-> outcome]

processPaymentsAutomatically(subscriptionIds) ==
    /\ job.pc \in {"idle", "done"}
    /\ job' = [pc |-> IF subscriptionIds = <<>> THEN "done" ELSE "check",
               ids |-> subscriptionIds, i |-> 1, log |-> <<>>]
    /\ UNCHANGED <<ledger, token, status, now, frame, last, processed, chargedAt, feesDue,
                   tipping>>

\* const isDue = await this.contract.isPaymentDue(subscriptionId)
CheckDue ==
    /\ job.pc = "check"
    /\ frame.op = "none"
    /\ job' = IF isPaymentDue(job.ids[job.i])
              THEN [job EXCEPT !.pc = "submit"]
              ELSE NextId(Entry("false", FALSE, "not due"))
    /\ UNCHANGED <<ledger, token, status, now, frame, last, processed, chargedAt, feesDue,
                   tipping>>

\* the call to the node fails: isPaymentDue or the submission throws
RpcFails ==
    /\ job.pc \in {"check", "submit"}
    /\ job' = Caught(Entry(IF job.pc = "check" THEN "unknown" ELSE "true", FALSE, "failed"))
    /\ UNCHANGED <<ledger, token, status, now, frame, last, processed, chargedAt, feesDue,
                   tipping>>

\* const tx = await this.contract.processSubscriptionPayment(subscriptionId)
Submit ==
    /\ job.pc = "submit"
    /\ Idle
    /\ job' = [job EXCEPT !.pc = "sent"]
    /\ UNCHANGED <<ledger, token, status, now, frame, last, processed, chargedAt, feesDue,
                   tipping>>

\* the transaction the agent service signed is mined
Mined ==
    /\ job.pc = "sent"
    /\ processSubscriptionPayment(AgentKey, job.ids[job.i])

\* await tx.wait(): resolves for a successful transaction, throws for a
\* reverted one
Wait ==
    /\ job.pc = "sent"
    /\ last.op = "processSubscriptionPayment" /\ last.res # "pending"
    /\ job' = IF last.res = "ok"
              THEN NextId(Entry("true", TRUE, "processed"))
              ELSE Caught(Entry("true", TRUE, "failed"))
    /\ last' = NoReceipt
    /\ UNCHANGED <<ledger, token, status, now, frame, processed, chargedAt, feesDue, tipping>>

\* what else happens on the ledger while the agent service runs
NextAgent ==
    \/ \E ids \in JobLists : processPaymentsAutomatically(ids)
    \/ CheckDue
    \/ RpcFails
    \/ Submit
    \/ Mined
    \/ processSubscriptionPaymentReturn
    \/ TokenFails
    \/ Wait
    \/ \E s \in Funded, r \in Creators \ {NULL} :
          job.pc # "sent" /\ createSubscription(agentWallet, s, r, UnitAmount, ONE_DAY)
    \/ createSubscriptionReturn
    \/ \E id \in DOMAIN subscriptions :
          job.pc # "sent" /\ cancelSubscription(subscriptions[id].subscriber, id)
    \/ \E n \in Funded : job.pc # "sent" /\ setAgentWallet(owner, n)
    \/ \E u \in Funded, r \in Creators \ {NULL}, k \in ContentIds :
          job.pc # "sent" /\ sendTip(agentWallet, u, r, UnitAmount, k)
    \/ sendTipReturn
    \/ job.pc # "sent" /\ Tick
    \/ job.pc # "sent" /\ NextTransaction

SpecAgent == Init /\ [][NextAgent]_vars

(* ========================= SubscriptionTipping ========================= *)
\* The contract of hello-arc/src/Subscription.sol.  Its token is the USDC
\* token above, tokenAllowance being what each holder approved for it; its
\* own token account is LEDGER.  The token makes no call back.
PAYMENT_INTERVAL == 30 * ONE_DAY
MaxIntervals == 3
MaxPairs == 1
MaxBatch == 2

\* everything SubscriptionManager and its agent service own
manager == <<ledger, status, frame, processed, chargedAt, feesDue, job>>

ZeroSubscription == [amount |-> 0, nextPayment |-> 0, active |-> FALSE, lastPayment |-> 0]
\* subscriptions[user][creator]; a slot never written reads as zero
SubOf(user, creator) ==
    IF <<user, creator>> \in DOMAIN subscriptionsTipping
    THEN subscriptionsTipping[<<user, creator>>] ELSE ZeroSubscription
\* setAt: when subscribe or reactivateSubscription last set the schedule;
\* paidAt: the times of the successful processSubscription calls, of which
\* sinceSet were made after the schedule was last set
NoHistory == [setAt |-> 0, paidAt |-> <<>>, sinceSet |-> 0]
HistoryOf(pair) == IF pair \in DOMAIN history THEN history[pair] ELSE NoHistory

\* storage and token state, as a transaction finds them
Tipping == [owner |-> ownerTipping, relayers |-> relayers,
            subscriptions |-> subscriptionsTipping,
            tokenBalance |-> tokenBalance, tokenAllowance |-> tokenAllowance]

onlyOwnerTipping(caller) == caller = ownerTipping

\* a transaction that reverts: nothing changes
FailTipping(op, caller, args, err) ==
    /\ last' = Call(op, caller, args, err, <<>>, NoCall, Tipping)
    /\ UNCHANGED <<tipping, token, now, manager>>
Receipt(op, caller, args, events) ==
    last' = Call(op, caller, args, "ok", events, NoCall, Tipping)
\* the latest due time the schedules explored reach
Horizon == DeployTime + (MaxIntervals + 1) * PAYMENT_INTERVAL
InHorizon(subs) == \A pair \in DOMAIN subs : subs[pair].nextPayment <= Horizon
\* a written slot, or room for one more
Room(pair) ==
    pair \in DOMAIN subscriptionsTipping \/ Cardinality(DOMAIN subscriptionsTipping) < MaxPairs

\* _safeTransferFrom(token, from, to, value) does not revert
SafeTransferFromOk(from, value) ==
    tokenBalance[from] >= value /\ tokenAllowance[from] >= value
SafeTransferFrom(from, to, value) ==
    /\ tokenBalance' = [[tokenBalance EXCEPT ![from] = @ - value] EXCEPT ![to] = @ + value]
    /\ tokenAllowance' = [tokenAllowance EXCEPT ![from] = @ - value]

(* ---------------- subscribe, cancel, reactivate, re-price -------------- *)
subscribeError(caller, creator, amount) ==
    IF creator = NULL THEN "invalid creator"
    ELSE IF amount = 0 THEN "amount must be > 0"
    ELSE "ok"

subscribe(caller, creator, amount) ==
    LET err == subscribeError(caller, creator, amount)
        pair == <<caller, creator>>
    IN  /\ Idle
        /\ IF err # "ok"
           THEN FailTipping("subscribe", caller, <<creator, amount>>, err)
           ELSE /\ Room(pair)
                /\ subscriptionsTipping' =
                      (pair :> [amount |-> amount, nextPayment |-> now + PAYMENT_INTERVAL,
                                active |-> TRUE, lastPayment |-> 0]) @@ subscriptionsTipping
                /\ history' = (pair :> [HistoryOf(pair) EXCEPT !.setAt = now, !.sinceSet = 0]) @@ history
                /\ Receipt("subscribe", caller, <<creator, amount>>, <<"Subscribed">>)
                /\ UNCHANGED <<ownerTipping, relayers, token, now, manager>>

cancelSubscriptionTippingError(caller, creator) ==
    IF ~SubOf(caller, creator).active THEN "subscription not active" ELSE "ok"

cancelSubscriptionTipping(caller, creator) ==
    LET err == cancelSubscriptionTippingError(caller, creator)
        pair == <<caller, creator>>
    IN  /\ Idle
        /\ IF err # "ok"
           THEN FailTipping("cancelSubscription", caller, <<creator>>, err)
           ELSE /\ subscriptionsTipping' = [subscriptionsTipping EXCEPT ![pair].active = FALSE]
                /\ Receipt("cancelSubscription", caller, <<creator>>,
                           <<"SubscriptionCancelled">>)
                /\ UNCHANGED <<ownerTipping, relayers, history, token, now, manager>>

reactivateSubscriptionError_AnyState(caller, creator) ==
    IF SubOf(caller, creator).amount = 0 THEN "no subscription exists" ELSE "ok"

reactivateSubscriptionError(caller, creator) ==
    IF SubOf(caller, creator).active THEN "subscription already active"
    ELSE IF SubOf(caller, creator).amount = 0 THEN "no subscription exists"
    ELSE "ok"

reactivateSubscription(caller, creator) ==
    LET err == reactivateSubscriptionError(caller, creator)
        pair == <<caller, creator>>
    IN  /\ Idle
        /\ IF err # "ok"
           THEN FailTipping("reactivateSubscription", caller, <<creator>>, err)
           ELSE /\ subscriptionsTipping' =
                      [subscriptionsTipping EXCEPT
                          ![pair].active = TRUE,
                          ![pair].nextPayment = now + PAYMENT_INTERVAL]
                /\ history' = [history EXCEPT ![pair].setAt = now, ![pair].sinceSet = 0]
                /\ Receipt("reactivateSubscription", caller, <<creator>>,
                           <<"SubscriptionReactivated">>)
                /\ UNCHANGED <<ownerTipping, relayers, token, now, manager>>

updateSubscriptionAmountError(caller, creator, newAmount) ==
    IF newAmount = 0 THEN "amount must be > 0"
    ELSE IF SubOf(caller, creator).amount = 0 THEN "subscription not found"
    ELSE "ok"

updateSubscriptionAmount(caller, creator, newAmount) ==
    LET err == updateSubscriptionAmountError(caller, creator, newAmount)
        pair == <<caller, creator>>
    IN  /\ Idle
        /\ IF err # "ok"
           THEN FailTipping("updateSubscriptionAmount", caller, <<creator, newAmount>>, err)
           ELSE /\ subscriptionsTipping' = [subscriptionsTipping EXCEPT ![pair].amount = newAmount]
                /\ Receipt("updateSubscriptionAmount", caller, <<creator, newAmount>>, <<>>)
                /\ UNCHANGED <<ownerTipping, relayers, history, token, now, manager>>

(* ------------------------ owner and relayers --------------------------- *)
addRelayer(caller, r) ==
    LET err == IF ~onlyOwnerTipping(caller) THEN "Ownable: caller is not the owner"
               ELSE IF r = NULL THEN "invalid relayer"
               ELSE "ok"
    IN  /\ Idle
        /\ IF err # "ok"
           THEN FailTipping("addRelayer", caller, <<r>>, err)
           ELSE /\ relayers' = relayers \cup {r}
                /\ Receipt("addRelayer", caller, <<r>>, <<>>)
                /\ UNCHANGED <<ownerTipping, subscriptionsTipping, history, token, now, manager>>

removeRelayer(caller, r) ==
    LET err == IF ~onlyOwnerTipping(caller) THEN "Ownable: caller is not the owner" ELSE "ok"
    IN  /\ Idle
        /\ IF err # "ok"
           THEN FailTipping("removeRelayer", caller, <<r>>, err)
           ELSE /\ relayers' = relayers \ {r}
                /\ Receipt("removeRelayer", caller, <<r>>, <<>>)
                /\ UNCHANGED <<ownerTipping, subscriptionsTipping, history, token, now, manager>>

(* --------------------------- processSubscription ----------------------- *)
processSubscriptionError_NoDueCheck(caller, user, creator) ==
    IF ~SubOf(user, creator).active THEN "subscription not active"
    ELSE IF SubOf(user, creator).amount = 0 THEN "invalid subscription amount"
    ELSE IF ~SafeTransferFromOk(user, SubOf(user, creator).amount) THEN "TRANSFER_FROM_FAILED"
    ELSE "ok"

processSubscriptionError(caller, user, creator) ==
    IF ~SubOf(user, creator).active THEN "subscription not active"
    ELSE IF now < SubOf(user, creator).nextPayment THEN "payment not due"
    ELSE IF SubOf(user, creator).amount = 0 THEN "invalid subscription amount"
    ELSE IF ~SafeTransferFromOk(user, SubOf(user, creator).amount) THEN "TRANSFER_FROM_FAILED"
    ELSE "ok"

NextPayment_Unmoved(s) == s.nextPayment
\* s.nextPayment = s.nextPayment + PAYMENT_INTERVAL
NextPayment(s) == s.nextPayment + PAYMENT_INTERVAL

processSubscription(caller, user, creator) ==
    LET err == processSubscriptionError(caller, user, creator)
        pair == <<user, creator>>
        s == SubOf(user, creator)
    IN  /\ Idle
        /\ IF err # "ok"
           THEN FailTipping("processSubscription", caller, <<user, creator>>, err)
           ELSE /\ SafeTransferFrom(user, creator, s.amount)
                /\ subscriptionsTipping' =
                      [subscriptionsTipping EXCEPT
                          ![pair].lastPayment = now,
                          ![pair].nextPayment = NextPayment(s)]
                /\ history' = [history EXCEPT ![pair].paidAt = Append(@, now),
                                            ![pair].sinceSet = @ + 1]
                /\ Receipt("processSubscription", caller, <<user, creator>>,
                           <<"SubscriptionPaid">>)
                /\ UNCHANGED <<ownerTipping, relayers, now, manager>>

(* --------------------- recordPayment, recordPayments ------------------- *)
IsRelayer_Anyone(caller) == TRUE
\* relayers[msg.sender] || msg.sender == owner()
IsRelayer(caller) == caller \in relayers \/ caller = ownerTipping

recordPaymentError(caller, user, creator) ==
    IF ~IsRelayer(caller) THEN "not authorized"
    ELSE IF ~SubOf(user, creator).active THEN "subscription not active"
    ELSE IF SubOf(user, creator).amount = 0 THEN "invalid subscription amount"
    ELSE "ok"

\* the bookkeeping of one recorded payment
Recorded(s) == [s EXCEPT !.lastPayment = now, !.nextPayment = s.nextPayment + PAYMENT_INTERVAL]

recordPayment(caller, user, creator, amount) ==
    LET err == recordPaymentError(caller, user, creator)
        pair == <<user, creator>>
    IN  /\ Idle
        /\ IF err # "ok"
           THEN FailTipping("recordPayment", caller, <<user, creator, amount>>, err)
           ELSE /\ subscriptionsTipping' =
                      [subscriptionsTipping EXCEPT ![pair] = Recorded(@)]
                /\ InHorizon(subscriptionsTipping')
                /\ Receipt("recordPayment", caller, <<user, creator, amount>>,
                           <<"SubscriptionPaid">>)
                /\ UNCHANGED <<ownerTipping, relayers, history, token, now, manager>>

recordPaymentsError(caller, users, creators, amounts, txIds) ==
    IF ~IsRelayer(caller) THEN "not authorized"
    ELSE IF ~(Len(creators) = Len(users) /\ Len(amounts) = Len(users)
                /\ Len(txIds) = Len(users))
         THEN "array length mismatch"
    ELSE "ok"

\* the loop of recordPayments from entry i on, over the storage subs
RECURSIVE RecordFrom(_, _, _, _)
RecordFrom(subs, users, creators, i) ==
    IF i > Len(users) THEN subs
    ELSE LET pair == <<users[i], creators[i]>>
             skip == pair \notin DOMAIN subs \/ ~subs[pair].active \/ subs[pair].amount = 0
         IN  RecordFrom(IF skip THEN subs ELSE [subs EXCEPT ![pair] = Recorded(@)],
                        users, creators, i + 1)
RECURSIVE PaidEvents(_, _, _, _)
PaidEvents(subs, users, creators, i) ==
    IF i > Len(users) THEN <<>>
    ELSE LET pair == <<users[i], creators[i]>>
             skip == pair \notin DOMAIN subs \/ ~subs[pair].active \/ subs[pair].amount = 0
         IN  (IF skip THEN <<>> ELSE <<"SubscriptionPaid">>)
                \o PaidEvents(subs, users, creators, i + 1)

recordPayments(caller, users, creators, amounts, txIds) ==
    LET err == recordPaymentsError(caller, users, creators, amounts, txIds)
        args == <<users, creators, amounts, txIds>>
    IN  /\ Idle
        /\ IF err # "ok"
           THEN FailTipping("recordPayments", caller, args, err)
           ELSE /\ subscriptionsTipping' = RecordFrom(subscriptionsTipping, users, creators, 1)
                /\ InHorizon(subscriptionsTipping')
                /\ Receipt("recordPayments", caller, args,
                           PaidEvents(subscriptionsTipping, users, creators, 1))
                /\ UNCHANGED <<ownerTipping, relayers, history, token, now, manager>>

(* ------------------------- tip, emergencyWithdraw ---------------------- *)
tipError(caller, creator, amount) ==
    IF creator = NULL THEN "invalid creator"
    ELSE IF amount = 0 THEN "amount must be > 0"
    ELSE IF ~SafeTransferFromOk(caller, amount) THEN "TRANSFER_FROM_FAILED"
    ELSE "ok"

tip(caller, creator, amount) ==
    LET err == tipError(caller, creator, amount)
    IN  /\ Idle
        /\ IF err # "ok"
           THEN FailTipping("tip", caller, <<creator, amount>>, err)
           ELSE /\ SafeTransferFrom(caller, creator, amount)
                /\ Receipt("tip", caller, <<creator, amount>>, <<"TipSent">>)
                /\ UNCHANGED <<tipping, now, manager>>

\* the token withdrawn is the USDC token
emergencyWithdraw(caller, amount) ==
    LET err == IF ~onlyOwnerTipping(caller) THEN "Ownable: caller is not the owner"
               ELSE IF tokenBalance[LEDGER] < amount THEN "TRANSFER_FAILED"
               ELSE "ok"
    IN  /\ Idle
        /\ IF err # "ok"
           THEN FailTipping("emergencyWithdraw", caller, <<amount>>, err)
           ELSE /\ PayTokens(caller, amount)
                /\ Receipt("emergencyWithdraw", caller, <<amount>>, <<"EmergencyWithdraw">>)
                /\ UNCHANGED <<tipping, now, manager>>

(* ------------------------------ environment ---------------------------- *)
TickTipping ==
    /\ Idle
    /\ now < DeployTime + MaxIntervals * PAYMENT_INTERVAL
    /\ now' = now + PAYMENT_INTERVAL
    /\ UNCHANGED <<last, tipping, token, manager>>

NextTransactionTipping ==
    /\ last.op # "none"
    /\ last' = NoReceipt
    /\ UNCHANGED <<tipping, token, now, manager>>

\* deployment by identity 1; SubscriptionManager plays no part
InitTipping ==
    /\ owner = NULL
    /\ agentWallet = NULL
    /\ platformFee = INITIAL_FEE
    /\ subscriptions = <<>>
    /\ userSubscriptions = [a \in Addr |-> <<>>]
    /\ creatorSubscriptions = [a \in Addr |-> <<>>]
    /\ escrows = <<>>
    /\ creatorBalances = [a \in {NULL} \cup Addr |-> 0]
    /\ totalTipsReceived = [a \in Addr |-> 0]
    /\ status = NOT_ENTERED
    /\ frame = NoFrame
    /\ processed = <<>>
    /\ chargedAt = <<>>
    /\ feesDue = 0
    /\ job = NoJob
    /\ tokenBalance = [a \in Holders |-> IF a \in Funded THEN InitBal ELSE 0]
    /\ tokenAllowance = [a \in Addr |-> IF a \in Funded THEN InitBal ELSE 0]
    /\ now = DeployTime
    /\ ownerTipping = 1
    /\ relayers = {}
    /\ subscriptionsTipping = <<>>
    /\ history = <<>>
    /\ last = Call("constructor", 1, <<>>, "ok", <<"OwnershipTransferred">>, NoCall, <<>>)

\* who subscribes, who is offered as relayer, who sends a batch, the lists
\* recordPayments is given, the amounts a subscription is re-priced to
Subscribers == Addr \ {2}
Relayers == {NULL, 2}
Senders == {1, 2}
Batches == UNION {[1 .. n -> Subscribers] : n \in 0 .. MaxBatch}
NewAmounts == {0, 2 * UnitAmount}

NextTipping ==
    \/ \E c \in Subscribers, r \in Creators, a \in Amounts : subscribe(c, r, a)
    \/ \E c \in Addr : cancelSubscriptionTipping(c, 2)
    \/ \E c \in Addr : reactivateSubscription(c, 2)
    \/ \E c \in Addr, a \in NewAmounts : updateSubscriptionAmount(c, 2, a)
    \/ \E c \in Addr, r \in Relayers : addRelayer(c, r)
    \/ \E c \in Addr, r \in Relayers : removeRelayer(c, r)
    \/ \E c \in Addr, u \in Subscribers : processSubscription(c, u, 2)
    \/ \E c \in Addr, u \in Subscribers : recordPayment(c, u, 2, UnitAmount)
    \/ \E c \in Senders, us \in Batches, n \in 1 .. MaxBatch :
          /\ n \in {Len(us), MaxBatch}
          /\ recordPayments(c, us, [i \in 1 .. n |-> 2],
                            [i \in DOMAIN us |-> UnitAmount], [i \in DOMAIN us |-> "tx"])
    \/ \E c \in Addr, r \in Creators, a \in Amounts : tip(c, r, a)
    \/ \E c \in Addr, a \in Amounts : emergencyWithdraw(c, a)
    \/ TickTipping
    \/ NextTransactionTipping

SpecTipping == InitTipping /\ [][NextTipping]_vars

(* ============================ properties =============================== *)
\* last is the receipt of a mined transaction of entry point op
Done(op) == last.op = op /\ last.res # "pending"
EntryPoints == GuardedOps \cup {"cancelSubscription", "setAgentWallet", "updatePlatformFee"}
\* a transaction is mined or under way: Pre is the ledger's storage when it
\* was submitted
InTransaction == last.op \in EntryPoints
Pre == last.pre.ledger
PreSub(id) == IF id \in DOMAIN Pre.subscriptions THEN Pre.subscriptions[id] ELSE ZeroSub
PreEsc(id) == IF id \in DOMAIN Pre.escrows THEN Pre.escrows[id] ELSE ZeroEscrow
TokenUntouched ==
    tokenBalance = last.pre.tokenBalance /\ tokenAllowance = last.pre.tokenAllowance
NothingChanged ==
    /\ Ledger = Pre /\ TokenUntouched /\ processed = last.pre.processed
    /\ chargedAt = last.pre.chargedAt /\ feesDue = last.pre.feesDue
\* the creator's share of amount at the fee rate of the submitted transaction
CutOf(amount) == amount - (amount * Pre.platformFee) \div FEE_DENOMINATOR

AgentGated == {"createSubscription", "processSubscriptionPayment", "sendTip"}

\* C1: createSubscription, processSubscriptionPayment and sendTip sent by
\* anyone but the current agent wallet (the owner, the subscriber and the
\* creator included) fail with UnauthorizedAgent, change no storage of the
\* ledger and move no tokens.
C1_OnlyAgent ==
    (last.op \in AgentGated /\ last.caller # Pre.agentWallet)
        => (last.res = "UnauthorizedAgent" /\ NothingChanged)

\* the owner, who is not the agent, sent an otherwise valid createSubscription
\* and the subscriber of a due subscription sent processSubscriptionPayment
C1_Witness ==
    /\ last.op = "processSubscriptionPayment"
    /\ last.res = "UnauthorizedAgent"
    /\ PreSub(last.args[1]).active
    /\ now >= PreSub(last.args[1]).nextPaymentDue
    /\ last.caller \in {PreSub(last.args[1]).subscriber, Pre.owner}
    /\ last.caller # Pre.agentWallet

\* C2: cancelSubscription(id) succeeds only for the subscription's subscriber
\* or the owner, every other caller (the agent and the creator included)
\* fails with UnauthorizedUser; a successful cancel sets active = false and
\* changes nothing else: no creator balance, no token balance, no counter,
\* no nextPaymentDue.
C2_CancelFrame ==
    Done("cancelSubscription") =>
        LET id == last.args[1]
            allowed == last.caller \in {PreSub(id).subscriber, Pre.owner}
        IN  /\ ~allowed => (last.res = "UnauthorizedUser" /\ NothingChanged)
            /\ last.res = "ok" =>
                  /\ allowed
                  /\ PreSub(id).active
                  /\ subscriptions = [Pre.subscriptions EXCEPT ![id].active = FALSE]
                  /\ Ledger = [Pre EXCEPT !.subscriptions = subscriptions]
                  /\ TokenUntouched
                  /\ processed = last.pre.processed

\* a subscriber cancelled a paid subscription: the creator keeps the payment
C2_Witness ==
    /\ Done("cancelSubscription")
    /\ last.res = "ok"
    /\ last.caller = PreSub(last.args[1]).subscriber
    /\ last.caller # Pre.owner
    /\ creatorBalances[PreSub(last.args[1]).creator] > 0
    /\ ~Sub(last.args[1]).active

\* C3: a subscription goes nonexistent -> active -> inactive and inactive is
\* terminal: no transaction turns active from false to true (so it turns
\* from true to false at most once), and processSubscriptionPayment on a
\* cancelled subscription fails (with SubscriptionNotActive once the caller is
\* the agent) and pulls no tokens.
C3_Lifecycle ==
    InTransaction =>
        /\ \A id \in DOMAIN Pre.subscriptions :
              /\ id \in DOMAIN subscriptions
              /\ ~Pre.subscriptions[id].active => ~subscriptions[id].active
        /\ \A id \in DOMAIN subscriptions \ DOMAIN Pre.subscriptions :
              subscriptions[id].active /\ last.op = "createSubscription"
        /\ (last.op = "processSubscriptionPayment" /\ ~PreSub(last.args[1]).active) =>
              /\ last.res \in {"SubscriptionNotActive", "UnauthorizedAgent"}
              /\ last.caller = Pre.agentWallet => last.res = "SubscriptionNotActive"
              /\ NothingChanged

\* the agent tried to charge a cancelled subscription whose payment was due
C3_Witness ==
    /\ Done("processSubscriptionPayment")
    /\ last.res = "SubscriptionNotActive"
    /\ PreSub(last.args[1]).subscriber # NULL
    /\ ~PreSub(last.args[1]).active
    /\ now >= PreSub(last.args[1]).nextPaymentDue
    /\ tokenBalance[PreSub(last.args[1]).subscriber] >= PreSub(last.args[1]).amount

\* C4: releaseMicropayment succeeds on an escrow only while it is unreleased
\* and then credits the creator with exactly the creator's share of the
\* escrowed amount; on a released escrow it fails with EscrowAlreadyReleased
\* and credits nothing; the record of a released escrow (one a payer
\* created) never changes again, so an escrow is credited at most once.
C4_ReleaseOnce ==
    /\ InTransaction =>
          \A id \in DOMAIN Pre.escrows :
              /\ id \in DOMAIN escrows
              /\ (Pre.escrows[id].payer # NULL /\ Pre.escrows[id].released)
                    => escrows[id] = Pre.escrows[id]
    /\ Done("releaseMicropayment") =>
          LET id == last.args[1]
              escrow == PreEsc(id)
          IN  /\ escrow.released =>
                    /\ last.res \in {"EscrowAlreadyReleased", "UnauthorizedUser"}
                    /\ last.caller \in {escrow.payer, Pre.owner}
                          => last.res = "EscrowAlreadyReleased"
                    /\ NothingChanged
              /\ last.res = "ok" =>
                    /\ ~escrow.released
                    /\ Esc(id).released
                    /\ creatorBalances = [Pre.creatorBalances EXCEPT
                                             ![escrow.creator] = @ + CutOf(escrow.amount)]
              /\ last.res # "ok" => creatorBalances = Pre.creatorBalances

\* the payer released a funded escrow and then tried again
C4_Witness ==
    /\ Done("releaseMicropayment")
    /\ last.res = "EscrowAlreadyReleased"
    /\ last.caller = PreEsc(last.args[1]).payer
    /\ PreEsc(last.args[1]).amount > 0
    /\ creatorBalances[PreEsc(last.args[1]).creator] = CutOf(PreEsc(last.args[1]).amount)

\* C5: releaseMicropayment on an existing unreleased escrow by a caller who
\* is neither its payer nor the owner (its creator and the agent included)
\* fails with UnauthorizedUser, leaves the escrow unreleased and every
\* creator balance unchanged.
C5_ReleaseUnauthorized ==
    ( /\ Done("releaseMicropayment")
      /\ PreEsc(last.args[1]).payer # NULL
      /\ ~PreEsc(last.args[1]).released
      /\ last.caller \notin {PreEsc(last.args[1]).payer, Pre.owner} )
        => /\ last.res = "UnauthorizedUser"
           /\ ~Esc(last.args[1]).released
           /\ creatorBalances = Pre.creatorBalances
           /\ NothingChanged

\* the creator of a funded escrow, who is also the agent, tried to release it
C5_Witness ==
    /\ Done("releaseMicropayment")
    /\ last.res = "UnauthorizedUser"
    /\ PreEsc(last.args[1]).amount > 0
    /\ ~PreEsc(last.args[1]).released
    /\ last.caller = PreEsc(last.args[1]).creator
    /\ last.caller = Pre.agentWallet

\* the token called back into withdrawCreatorBalance while the transfer of a
\* withdrawCreatorBalance was running
ReenteredWithdraw ==
    /\ last.op = "withdrawCreatorBalance"
    /\ (IF last.res = "pending" THEN frame.inner.op ELSE last.inner.op)
          = "withdrawCreatorBalance"

\* C6 as the specification states it: the nested withdrawCreatorBalance fails
\* with Reentrant and the original withdrawal still completes, paying the
\* creator the prior balance once and leaving the ledger balance at zero.
C6_OriginalCompletes ==
    (ReenteredWithdraw /\ last.res # "pending") =>
        /\ last.inner.res = "Reentrant"
        /\ last.res = "ok"
        /\ creatorBalances[last.caller] = 0
        /\ tokenBalance[last.caller] =
              last.pre.tokenBalance[last.caller] + Pre.creatorBalances[last.caller]

\* C6, amended: the nested withdrawCreatorBalance fails with Reentrant and
\* pays nothing.  If the token's transfer still returns true the withdrawal
\* completes exactly once (the creator receives the prior balance once, the
\* ledger balance ends at zero); if the token lets the failure propagate, or
\* cannot pay, the whole withdrawal reverts: the balance is at its value
\* before the call and no tokens moved.
C6_ReentrantWithdraw ==
    ReenteredWithdraw =>
        LET c == last.caller
            prior == Pre.creatorBalances[c]
        IN  CASE last.res = "pending" ->
                   /\ frame.inner.res = "Reentrant"
                   /\ creatorBalances[c] = 0
                   /\ TokenUntouched
              [] last.res = "ok" ->
                   /\ last.inner.res = "Reentrant"
                   /\ creatorBalances[c] = 0
                   /\ Ledger = [Pre EXCEPT !.creatorBalances[c] = 0]
                   /\ tokenBalance = [last.pre.tokenBalance EXCEPT
                                         ![LEDGER] = @ - prior, ![c] = @ + prior]
              [] OTHER ->
                   /\ last.inner.res = "Reentrant"
                   /\ last.res \in {"Reentrant", "TransferFailed"}
                   /\ NothingChanged

\* the nested call was rejected and the original withdrawal paid the creator
C6_Witness ==
    /\ ReenteredWithdraw
    /\ last.res = "ok"
    /\ last.inner.res = "Reentrant"
    /\ Pre.creatorBalances[last.caller] > 0
    /\ tokenBalance[last.caller] =
          last.pre.tokenBalance[last.caller] + Pre.creatorBalances[last.caller]

\* C7 as the specification states it: a call the token makes back into any
\* entry point, while a guarded call is in its token call, is rejected (here
\* only: does not succeed), also in a transaction that goes on to succeed.
C7_NestedCallsRejected ==
    (InTransaction /\ last.res = "ok" /\ last.inner.op # "none")
        => last.inner.res # "ok"

\* C8: withdrawCreatorBalance fails with NoBalanceToWithdraw on a zero
\* balance; while the token transfer runs the caller's balance is already
\* zero and the amount of the transfer is the balance read before; on
\* success the caller received that amount; a failed transfer leaves the
\* balance at its value before the call.
C8_WithdrawOrder ==
    last.op = "withdrawCreatorBalance" =>
        LET c == last.caller
            prior == Pre.creatorBalances[c]
        IN  /\ prior = 0 => (last.res = "NoBalanceToWithdraw" /\ NothingChanged)
            /\ last.res = "NoBalanceToWithdraw" => prior = 0
            /\ last.res = "pending" =>
                  /\ creatorBalances[c] = 0
                  /\ frame.amount = prior /\ frame.party = c
                  /\ TokenUntouched
            /\ last.res = "ok" =>
                  /\ creatorBalances[c] = 0
                  /\ tokenBalance = [last.pre.tokenBalance EXCEPT
                                        ![LEDGER] = @ - prior, ![c] = @ + prior]
            /\ last.res = "TransferFailed" =>
                  (creatorBalances[c] = prior /\ NothingChanged)

\* the ledger could not pay a creator's positive balance
C8_Witness ==
    /\ Done("withdrawCreatorBalance")
    /\ last.res = "TransferFailed"
    /\ creatorBalances[last.caller] > 0
    /\ creatorBalances[last.caller] = Pre.creatorBalances[last.caller]

\* C9 as the specification states it: a successful processSubscriptionPayment
\* moves nextPaymentDue to its previous value plus interval, however late
\* the call is made.
C9_NextDueAdvancesByInterval ==
    (Done("processSubscriptionPayment") /\ last.res = "ok") =>
        Sub(last.args[1]).nextPaymentDue =
            PreSub(last.args[1]).nextPaymentDue + PreSub(last.args[1]).interval

\* C10: for every stored subscription totalPaid = amount * paymentsCount;
\* after n successful processSubscriptionPayment calls paymentsCount = n + 1
\* and totalPaid = amount * (n + 1); no transaction lowers a counter, and a
\* failed call or a cancellation leaves both as they were.
C10_Counters ==
    /\ \A id \in DOMAIN subscriptions :
          /\ subscriptions[id].totalPaid =
                subscriptions[id].amount * subscriptions[id].paymentsCount
          /\ subscriptions[id].paymentsCount = processed[id] + 1
          /\ subscriptions[id].totalPaid = subscriptions[id].amount * (processed[id] + 1)
    /\ InTransaction =>
          \A id \in DOMAIN Pre.subscriptions :
              /\ subscriptions[id].totalPaid >= Pre.subscriptions[id].totalPaid
              /\ subscriptions[id].paymentsCount >= Pre.subscriptions[id].paymentsCount
              /\ (last.res # "ok" \/ last.op = "cancelSubscription") =>
                    /\ subscriptions[id].totalPaid = Pre.subscriptions[id].totalPaid
                    /\ subscriptions[id].paymentsCount = Pre.subscriptions[id].paymentsCount

\* a subscription was charged twice after its creation, then cancelled
C10_Witness ==
    /\ Done("cancelSubscription")
    /\ last.res = "ok"
    /\ processed[last.args[1]] >= 2
    /\ Sub(last.args[1]).paymentsCount = processed[last.args[1]] + 1
    /\ Sub(last.args[1]).totalPaid = UnitAmount * (processed[last.args[1]] + 1)

\* C11: when processSubscriptionPayment has succeeded on a subscription and
\* the agent calls it again before interval seconds have passed since that
\* success, the call fails with PaymentNotDue and changes nothing, also when
\* the earlier call was made after the payment had become due.
C11_SecondCallNotDue ==
    ( /\ Done("processSubscriptionPayment")
      /\ last.caller = Pre.agentWallet
      /\ PreSub(last.args[1]).active
      /\ last.args[1] \in DOMAIN last.pre.processed
      /\ last.pre.processed[last.args[1]] >= 1
      /\ now < last.pre.chargedAt[last.args[1]] + PreSub(last.args[1]).interval )
        => (last.res = "PaymentNotDue" /\ NothingChanged)

\* a subscription was charged a day late and the agent charged it again in
\* the same block, the subscriber still holding enough tokens
C11_Witness ==
    /\ Done("processSubscriptionPayment")
    /\ last.res = "PaymentNotDue"
    /\ last.args[1] \in DOMAIN processed
    /\ processed[last.args[1]] = 1
    /\ chargedAt[last.args[1]] > last.args[1][3] + Sub(last.args[1]).interval
    /\ now = chargedAt[last.args[1]]
    /\ TransferFromOk(Sub(last.args[1]).subscriber, Sub(last.args[1]).amount)

\* the token would have made the pull of amount from holder when the
\* transaction was submitted
PrePullOk(holder, amount) ==
    last.pre.tokenBalance[holder] >= amount /\ last.pre.tokenAllowance[holder] >= amount

\* C12: processSubscriptionPayment by the agent fails with
\* SubscriptionNotActive when the subscription is inactive or was never
\* created and with PaymentNotDue when it is active and now < nextPaymentDue,
\* in both cases with no tokens moved and storage unchanged; when it is
\* active, due and the token makes the pull, the call succeeds.
C12_ProcessOutcomes ==
    (Done("processSubscriptionPayment") /\ last.caller = Pre.agentWallet) =>
        LET sub == PreSub(last.args[1])
        IN  /\ ~sub.active => (last.res = "SubscriptionNotActive" /\ NothingChanged)
            /\ (sub.active /\ now < sub.nextPaymentDue)
                  => (last.res = "PaymentNotDue" /\ NothingChanged)
            /\ (sub.active /\ now >= sub.nextPaymentDue
                  /\ PrePullOk(sub.subscriber, sub.amount)) => last.res = "ok"
            /\ last.res = "ok" => (sub.active /\ now >= sub.nextPaymentDue)

\* the agent charged an id under which nothing was ever stored, while a
\* cancelled subscription existed
C12_Witness ==
    /\ Done("processSubscriptionPayment")
    /\ last.caller = Pre.agentWallet
    /\ last.res = "SubscriptionNotActive"
    /\ last.args[1] \notin DOMAIN Pre.subscriptions
    /\ \E id \in DOMAIN subscriptions : ~subscriptions[id].active

\* C13: a successful createSubscription(subscriber, creator, amount, interval)
\* is sent by the agent, moves exactly amount tokens from the subscriber to
\* the ledger, credits the creator with amount - floor(amount * fee / 10000)
\* and stores under a fresh id a subscription with the given subscriber,
\* creator, amount and interval, nextPaymentDue = now + interval,
\* paymentsCount = 1, totalPaid = amount and active = true: the first charge
\* is made at creation.
C13_CreateEffect ==
    (Done("createSubscription") /\ last.res = "ok") =>
        LET subscriber == last.args[1]
            creator == last.args[2]
            amount == last.args[3]
            interval == last.args[4]
            id == SubId(subscriber, creator, now, amount)
        IN  /\ last.caller = Pre.agentWallet
            /\ tokenBalance = [last.pre.tokenBalance EXCEPT
                                  ![subscriber] = @ - amount, ![LEDGER] = @ + amount]
            /\ creatorBalances = [Pre.creatorBalances EXCEPT
                                     ![creator] = @ + CutOf(amount)]
            /\ id \notin DOMAIN Pre.subscriptions
            /\ DOMAIN subscriptions = DOMAIN Pre.subscriptions \cup {id}
            /\ \A i \in DOMAIN Pre.subscriptions : subscriptions[i] = Pre.subscriptions[i]
            /\ subscriptions[id] =
                  [subscriber |-> subscriber, creator |-> creator, amount |-> amount,
                   interval |-> interval, nextPaymentDue |-> now + interval,
                   active |-> TRUE, totalPaid |-> amount, paymentsCount |-> 1]
            /\ escrows = Pre.escrows /\ totalTipsReceived = Pre.totalTipsReceived
            /\ platformFee = Pre.platformFee /\ agentWallet = Pre.agentWallet

\* a subscription was created at a fee rate other than the initial one, with
\* a creator share below the amount
C13_Witness ==
    /\ Done("createSubscription")
    /\ last.res = "ok"
    /\ Pre.platformFee # INITIAL_FEE
    /\ CutOf(last.args[3]) < last.args[3]
    /\ creatorBalances[last.args[2]] = CutOf(last.args[3])
    /\ tokenBalance[LEDGER] = last.pre.tokenBalance[LEDGER] + last.args[3]

RECURSIVE SumOver(_, _)
SumOver(f, S) == IF S = {} THEN 0
                 ELSE LET x == CHOOSE y \in S : TRUE IN f[x] + SumOver(f, S \ {x})
\* what the ledger owes its creators
SumBalances == SumOver(creatorBalances, DOMAIN creatorBalances)
\* the tokens the ledger holds that are owed to no creator
NotOwed == tokenBalance[LEDGER] - SumBalances

\* C14: on a fresh ledger at fee rate 250, creating a subscription of amount
\* 5000000 and interval 2592000 leaves creatorBalances[creator] = 4875000 and
\* 125000 tokens in the ledger that are owed to no creator, right after the
\* creation.
C14_Scenario ==
    ( /\ Done("createSubscription") /\ last.res = "ok"
      /\ last.args[3] = 5000000 /\ last.args[4] = 2592000
      /\ Pre.platformFee = 250
      /\ Pre.subscriptions = <<>> /\ Pre.escrows = <<>>
      /\ \A a \in DOMAIN Pre.creatorBalances : Pre.creatorBalances[a] = 0
      /\ last.pre.tokenBalance[LEDGER] = 0 )
        => /\ creatorBalances[last.args[2]] = 4875000
           /\ NotOwed = 125000
           /\ feesDue = 125000
           /\ tokenBalance[LEDGER] = 5000000

\* the scenario's subscription was created
C14_Witness ==
    /\ Done("createSubscription") /\ last.res = "ok"
    /\ last.args[3] = 5000000 /\ last.args[4] = 2592000
    /\ Pre.platformFee = 250
    /\ last.pre.tokenBalance[LEDGER] = 0
    /\ creatorBalances[last.args[2]] = 4875000

\* C15: createSubscription by the agent fails with InvalidAddress on a null
\* creator or subscriber, with InvalidAmount on amount = 0 and with
\* InvalidInterval on interval < 1 day (reported in this order when several
\* apply); nothing is stored, no balance changes, no tokens move.  Every
\* stored subscription has amount > 0, interval >= 1 day and a non-null
\* subscriber and creator.
C15_CreateInputs ==
    /\ (Done("createSubscription") /\ last.caller = Pre.agentWallet) =>
          LET subscriber == last.args[1]
              creator == last.args[2]
              amount == last.args[3]
              interval == last.args[4]
              nullAddress == creator = NULL \/ subscriber = NULL
          IN  /\ nullAddress => last.res = "InvalidAddress"
              /\ (~nullAddress /\ amount = 0) => last.res = "InvalidAmount"
              /\ (~nullAddress /\ amount # 0 /\ interval < ONE_DAY)
                    => last.res = "InvalidInterval"
              /\ (nullAddress \/ amount = 0 \/ interval < ONE_DAY) => NothingChanged
    /\ \A id \in DOMAIN subscriptions :
          /\ subscriptions[id].amount > 0
          /\ subscriptions[id].interval >= ONE_DAY
          /\ subscriptions[id].subscriber # NULL
          /\ subscriptions[id].creator # NULL

\* the agent asked for a half-day subscription the subscriber could have paid
C15_Witness ==
    /\ Done("createSubscription")
    /\ last.caller = Pre.agentWallet
    /\ last.res = "InvalidInterval"
    /\ last.args[4] = HalfDay
    /\ PrePullOk(last.args[1], last.args[3])
    /\ subscriptions = <<>>

\* C16: a createSubscription whose (subscriber, creator, block time, amount)
\* is that of a stored subscription never succeeds and changes nothing; sent
\* by the agent with a valid interval, equal to the stored one or not, it
\* fails with SubscriptionAlreadyExists, also when the stored subscription
\* has been cancelled.  A createMicropaymentEscrow whose (payer, creator,
\* contentId, block time) is that of a created escrow changes nothing and,
\* with a positive amount, fails with EscrowAlreadyExists.
C16_AlreadyExists ==
    /\ ( /\ Done("createSubscription")
         /\ SubId(last.args[1], last.args[2], now, last.args[3]) \in DOMAIN Pre.subscriptions )
          => /\ last.res # "ok"
             /\ NothingChanged
             /\ (last.caller = Pre.agentWallet /\ last.args[4] >= ONE_DAY)
                   => last.res = "SubscriptionAlreadyExists"
    /\ ( /\ Done("createMicropaymentEscrow")
         /\ PreEsc(EscrowId(last.caller, last.args[1], last.args[3], now)).payer # NULL )
          => /\ last.res # "ok"
             /\ NothingChanged
             /\ last.args[2] > 0 => last.res = "EscrowAlreadyExists"

\* the agent repeated, with another interval, the request that had created a
\* subscription cancelled since, the subscriber still holding the amount
C16_Witness ==
    /\ Done("createSubscription")
    /\ last.res = "SubscriptionAlreadyExists"
    /\ ~PreSub(SubId(last.args[1], last.args[2], now, last.args[3])).active
    /\ last.args[4] # PreSub(SubId(last.args[1], last.args[2], now, last.args[3])).interval
    /\ PrePullOk(last.args[1], last.args[3])

\* a payer repeated the request that had created an escrow
C16_EscrowRepeated ==
    /\ Done("createMicropaymentEscrow")
    /\ last.res = "EscrowAlreadyExists"
    /\ PrePullOk(last.caller, last.args[2])

\* the entry points of C17 that call the token
TransferOps == PullOps \cup {"withdrawCreatorBalance"}

Settled ==
    IF last.res # "ok" THEN 0
    ELSE IF last.op \in {"createSubscription", "sendTip"} THEN last.args[3]
    ELSE IF last.op = "releaseMicropayment" THEN PreEsc(last.args[1]).amount
    ELSE 0
\* whom the settled payment credits
SettledCreator ==
    IF last.op = "releaseMicropayment" THEN PreEsc(last.args[1]).creator ELSE last.args[2]

\* C18: at every fee rate r in 0..1000 and for every gross amount A the
\* split made by subscription payments, tips and escrow releases is
\* platformCut = floor(A * r / 10000) and creatorCut = A - platformCut:
\* platformCut + creatorCut = A and creatorCut >= A - floor(A / 10).
C18_Split ==
    /\ platformFee \in FeeRates
    /\ \A A \in SplitAmounts :
          /\ PlatformCut(A) = (A * platformFee) \div 10000
          /\ CreatorAmount(A) = A - PlatformCut(A)
          /\ PlatformCut(A) + CreatorAmount(A) = A
          /\ CreatorAmount(A) >= A - A \div 10
    /\ Settled > 0 =>
          LET A == Settled
              platformCut == feesDue - last.pre.feesDue
              creatorCut == creatorBalances[SettledCreator]
                               - Pre.creatorBalances[SettledCreator]
          IN  /\ platformCut = (A * Pre.platformFee) \div 10000
              /\ creatorCut = A - platformCut
              /\ platformCut + creatorCut = A
              /\ creatorCut >= A - A \div 10

\* an escrow was released at the highest rate with an amount that 10 does
\* not divide: the platform's cut is rounded down
C18_Witness ==
    /\ Done("releaseMicropayment") /\ last.res = "ok"
    /\ Pre.platformFee = MAX_FEE
    /\ Settled % 10 # 0
    /\ Settled > 10
    /\ feesDue = Settled \div 10
    /\ creatorBalances[SettledCreator] = Settled - Settled \div 10

\* C19: the platform fee rate is at most 1000 in every reachable state (250
\* at deployment); updatePlatformFee with a value above 1000 fails and a
\* call by anyone but the owner fails, both leaving the rate (and all else)
\* unchanged; a successful call sets the rate to the value given.
C19_FeeCeiling ==
    /\ platformFee <= 1000
    /\ Done("updatePlatformFee") =>
          /\ last.caller # Pre.owner =>
                (last.res = "OwnableUnauthorizedAccount" /\ NothingChanged)
          /\ (last.caller = Pre.owner /\ last.args[1] > 1000) =>
                (last.res = "Fee cannot exceed 10%" /\ NothingChanged)
          /\ last.res # "ok" => platformFee = Pre.platformFee
          /\ last.res = "ok" =>
                /\ last.caller = Pre.owner
                /\ last.args[1] <= 1000
                /\ Ledger = [Pre EXCEPT !.platformFee = last.args[1]]

\* the owner had raised the rate to the ceiling and then asked for 1001
C19_Witness ==
    /\ Done("updatePlatformFee")
    /\ last.caller = Pre.owner
    /\ last.args[1] = MAX_FEE + 1
    /\ last.res # "ok"
    /\ Pre.platformFee = MAX_FEE
    /\ platformFee = MAX_FEE

\* the amounts of the escrows created and not yet released
EscrowsHeld ==
    SumOver([id \in DOMAIN escrows |->
                IF escrows[id].released THEN 0 ELSE escrows[id].amount],
            DOMAIN escrows)

\* C20 as the specification states it, between transactions, with escrowed
\* amounts counted among the funds held for later payout: the platform fees
\* not yet withdrawn are a quantity >= 0, and the creator balances plus
\* these fees (plus the unreleased escrows) are the tokens the ledger holds.
C20_Conservation ==
    frame.op = "none" =>
        /\ feesDue >= 0
        /\ SumBalances + feesDue + EscrowsHeld = tokenBalance[LEDGER]

\* C20 read to the letter, without the escrowed amounts
C20_ConservationNoEscrow ==
    frame.op = "none" => SumBalances + feesDue = tokenBalance[LEDGER]

\* what the code does keep: the tokens held are the creator balances, the
\* unreleased escrows and the platform cuts less whatever the owner withdrew
TokensAccounted ==
    frame.op = "none" => SumBalances + feesDue + EscrowsHeld = tokenBalance[LEDGER]

\* the ledger holds fewer tokens than it owes its creators
Underfunded == frame.op = "none" /\ SumBalances > tokenBalance[LEDGER]

\* C21 as the specification states it: withdrawPlatformFees(amount) succeeds
\* only for the owner and only when amount is at most the platform cuts
\* accumulated and not yet withdrawn.
C21_WithdrawBounded ==
    (Done("withdrawPlatformFees") /\ last.res = "ok") =>
        /\ last.caller = Pre.owner
        /\ last.args[1] <= last.pre.feesDue

\* C22 as the specification states it: a mined call to an entry point either
\* succeeded and emitted at least one event, or failed, emitted none and
\* changed nothing.
C22_EventOrNothing ==
    (InTransaction /\ last.res # "pending") =>
        IF last.res = "ok" THEN Len(last.events) >= 1
        ELSE last.events = <<>> /\ NothingChanged

\* the same for every entry point but withdrawPlatformFees
EventOrNothingElsewhere ==
    (InTransaction /\ last.res # "pending" /\ last.op # "withdrawPlatformFees")
        => C22_EventOrNothing

\* tokens left the ledger in a successful call that emitted no event
SilentPayout ==
    /\ Done("withdrawPlatformFees") /\ last.res = "ok"
    /\ last.events = <<>>
    /\ tokenBalance[LEDGER] < last.pre.tokenBalance[LEDGER]

\* who fails the agent check of every agent-gated entry point, whatever the
\* arguments, and who passes it
AgentRejects(who) ==
    /\ \A s \in Payers, r \in Creators, a \in Amounts, i \in Intervals :
          createSubscriptionError(who, s, r, a, i) = "UnauthorizedAgent"
    /\ \A id \in SubIdInputs : processSubscriptionPaymentError(who, id) = "UnauthorizedAgent"
    /\ \A u \in Payers, r \in Creators, a \in Amounts :
          sendTipError(who, u, r, a) = "UnauthorizedAgent"
AgentPasses(who) ==
    /\ \A s \in Payers, r \in Creators, a \in Amounts, i \in Intervals :
          createSubscriptionError(who, s, r, a, i) # "UnauthorizedAgent"
    /\ \A id \in SubIdInputs : processSubscriptionPaymentError(who, id) # "UnauthorizedAgent"
    /\ \A u \in Payers, r \in Creators, a \in Amounts :
          sendTipError(who, u, r, a) # "UnauthorizedAgent"

\* setAgentWallet fails for a non-owner and for the null identity and then
\* changes nothing; on success it installs newAgent, who passes the agent
\* check, leaves the owner and everything else alone and emits
\* AgentWalletUpdated(old agent, new agent); the agent is never null
SetAgentOutcome ==
    /\ agentWallet # NULL
    /\ Done("setAgentWallet") =>
          /\ last.caller # Pre.owner =>
                (last.res = "OwnableUnauthorizedAccount" /\ NothingChanged)
          /\ last.args[1] = NULL => (last.res # "ok" /\ NothingChanged)
          /\ last.res = "ok" =>
                /\ agentWallet = last.args[1]
                /\ owner = Pre.owner
                /\ Ledger = [Pre EXCEPT !.agentWallet = last.args[1]]
                /\ TokenUntouched
                /\ last.events = <<AgentWalletUpdated(Pre.agentWallet, last.args[1])>>
                /\ AgentPasses(last.args[1])

\* C23 as the specification states it: after every successful setAgentWallet
\* the previous agent fails every agent-gated call.
C23_PreviousAgentFails ==
    /\ SetAgentOutcome
    /\ (Done("setAgentWallet") /\ last.res = "ok") => AgentRejects(Pre.agentWallet)

\* C23: only the owner changes the agent and never to the null identity, a
\* failed setAgentWallet changes nothing; after a successful
\* setAgentWallet(newAgent) newAgent passes the agent check and every other
\* identity, the previous agent included when it is another identity, fails
\* every agent-gated call; the owner is unchanged and the event carries the
\* old and the new agent.
C23_AgentReplaced ==
    /\ SetAgentOutcome
    /\ (Done("setAgentWallet") /\ last.res = "ok") =>
          \A a \in Addr \ {last.args[1]} : AgentRejects(a)

\* the owner replaced the agent by another identity
C23_Witness ==
    /\ Done("setAgentWallet") /\ last.res = "ok"
    /\ last.caller = Pre.owner
    /\ Pre.agentWallet # last.args[1]
    /\ agentWallet = last.args[1]

\* the owner installed the identity that already was the agent
AgentReinstalled ==
    /\ Done("setAgentWallet") /\ last.res = "ok"
    /\ Pre.agentWallet = last.args[1]

\* C24: sendTip by the agent with amount = 0 fails (with InvalidAmount when
\* user and creator are non-null, with InvalidAddress otherwise) and changes
\* nothing; a successful sendTip pulls exactly amount from user into the
\* ledger, credits creatorBalances[creator] with amount less the platform
\* cut, adds amount to totalTipsReceived[creator] and leaves every
\* subscription and escrow record as it was, whatever subscription exists
\* between user and creator.
C24_TipFrame ==
    (Done("sendTip") /\ last.caller = Pre.agentWallet) =>
        LET user == last.args[1]
            creator == last.args[2]
            amount == last.args[3]
        IN  /\ amount = 0 =>
                  /\ last.res # "ok" /\ NothingChanged
                  /\ (user # NULL /\ creator # NULL) => last.res = "InvalidAmount"
            /\ last.res = "ok" =>
                  /\ amount > 0
                  /\ tokenBalance = [last.pre.tokenBalance EXCEPT
                                        ![user] = @ - amount, ![LEDGER] = @ + amount]
                  /\ creatorBalances = [Pre.creatorBalances EXCEPT
                                           ![creator] = @ + CutOf(amount)]
                  /\ Ledger = [Pre EXCEPT
                                  !.creatorBalances = creatorBalances,
                                  !.totalTipsReceived = [Pre.totalTipsReceived EXCEPT
                                                            ![creator] = @ + amount]]
                  /\ subscriptions = Pre.subscriptions
                  /\ escrows = Pre.escrows
                  /\ processed = last.pre.processed
                  /\ chargedAt = last.pre.chargedAt

\* a tip went through between the parties of an active subscription, which
\* the tip did not charge
C24_Witness ==
    /\ Done("sendTip") /\ last.res = "ok"
    /\ last.args[3] = UnitAmount
    /\ \E id \in DOMAIN subscriptions :
          /\ subscriptions[id].subscriber = last.args[1]
          /\ subscriptions[id].creator = last.args[2]
          /\ subscriptions[id].active
          /\ subscriptions[id].paymentsCount = 1

\* tips went through with no subscription at all and with a cancelled one
TipWithoutSubscription ==
    Done("sendTip") /\ last.res = "ok" /\ subscriptions = <<>>
TipAfterCancel ==
    /\ Done("sendTip") /\ last.res = "ok"
    /\ \E id \in DOMAIN subscriptions :
          /\ subscriptions[id].subscriber = last.args[1]
          /\ subscriptions[id].creator = last.args[2]
          /\ ~subscriptions[id].active
\* the agent sent a tip of nothing between two real identities
TipOfNothing ==
    /\ Done("sendTip") /\ last.caller = Pre.agentWallet
    /\ last.args[1] # NULL /\ last.args[2] # NULL /\ last.args[3] = 0
    /\ last.res = "InvalidAmount"

\* C25: a successful createMicropaymentEscrow pulls the gross amount from the
\* payer into the ledger and stores the escrow unreleased, crediting no
\* creator and accruing no platform cut; a successful releaseMicropayment
\* moves no tokens and credits the escrow's creator with
\* amount - floor(amount * r / 10000), r being platformFee when the release
\* is made, whatever the rate was when the escrow was deposited.
C25_ReleaseRate ==
    /\ (Done("createMicropaymentEscrow") /\ last.res = "ok") =>
          LET payer == last.caller
              creator == last.args[1]
              amount == last.args[2]
              id == EscrowId(payer, creator, last.args[3], now)
          IN  /\ tokenBalance = [last.pre.tokenBalance EXCEPT
                                    ![payer] = @ - amount, ![LEDGER] = @ + amount]
              /\ id \in DOMAIN escrows
              /\ escrows[id].payer = payer /\ escrows[id].creator = creator
              /\ escrows[id].amount = amount /\ ~escrows[id].released
              /\ creatorBalances = Pre.creatorBalances
              /\ feesDue = last.pre.feesDue
    /\ (Done("releaseMicropayment") /\ last.res = "ok") =>
          LET escrow == PreEsc(last.args[1])
              r == Pre.platformFee
          IN  /\ platformFee = r
              /\ TokenUntouched
              /\ escrows[last.args[1]].released
              /\ creatorBalances = [Pre.creatorBalances EXCEPT ![escrow.creator] =
                     @ + escrow.amount - (escrow.amount * r) \div FEE_DENOMINATOR]

\* an escrow deposited at the deployment rate was released after the owner
\* had raised the rate to the ceiling; the creator got the share at the
\* ceiling rate
C25_Witness ==
    /\ Done("releaseMicropayment") /\ last.res = "ok"
    /\ PreEsc(last.args[1]).payer # NULL
    /\ PreEsc(last.args[1]).amount = UnitAmount
    /\ Pre.platformFee = MAX_FEE
    /\ creatorBalances[PreEsc(last.args[1]).creator] =
          Pre.creatorBalances[PreEsc(last.args[1]).creator]
             + UnitAmount - (UnitAmount * MAX_FEE) \div FEE_DENOMINATOR
    /\ (UnitAmount * MAX_FEE) \div FEE_DENOMINATOR
          # (UnitAmount * INITIAL_FEE) \div FEE_DENOMINATOR

\* C26 as the specification states it: under every escrow identifier a
\* released flag that is true stays true, whatever is called by whomever.
C26_ReleasedForGood ==
    InTransaction =>
        \A id \in DOMAIN Pre.escrows :
            Pre.escrows[id].released => (id \in DOMAIN escrows /\ escrows[id].released)

\* the flag under an identifier went back from true to false: the owner had
\* released the identifier before any escrow was stored under it, and a payer
\* then deposited the escrow with that identifier
ReleasedReset ==
    /\ Done("createMicropaymentEscrow") /\ last.res = "ok"
    /\ \E id \in DOMAIN Pre.escrows :
          /\ Pre.escrows[id].released /\ Pre.escrows[id].payer = NULL
          /\ ~escrows[id].released /\ escrows[id].payer = last.caller

\* C27: a subscription record, once stored, stays stored, and its subscriber,
\* creator, amount and interval are the same after every later transaction,
\* whether it succeeds, fails or is under way.
C27_SubscriptionTerms ==
    InTransaction =>
        \A id \in DOMAIN Pre.subscriptions :
            /\ id \in DOMAIN subscriptions
            /\ subscriptions[id].subscriber = Pre.subscriptions[id].subscriber
            /\ subscriptions[id].creator = Pre.subscriptions[id].creator
            /\ subscriptions[id].amount = Pre.subscriptions[id].amount
            /\ subscriptions[id].interval = Pre.subscriptions[id].interval
            /\ subscriptions[id].subscriber # NULL

\* a subscription that was charged a second time has been cancelled: the
\* record is there, with the terms it was created with
C27_Witness ==
    /\ Done("cancelSubscription") /\ last.res = "ok"
    /\ PreSub(last.args[1]).paymentsCount = 2
    /\ PreSub(last.args[1]).active
    /\ ~subscriptions[last.args[1]].active
    /\ subscriptions[last.args[1]].amount = UnitAmount
    /\ subscriptions[last.args[1]].interval = ONE_DAY

\* C28: in every reachable state, an operation under way included, every
\* active subscription passes all checks of cancelSubscription sent by its
\* subscriber, and every cancelSubscription the subscriber of an active
\* subscription sent succeeded and left it inactive: who the agent and the
\* owner are, whether a payment is due, the fee rate and the subscriber's
\* tokens and allowance play no part.
C28_CancelAnytime ==
    /\ \A id \in DOMAIN subscriptions :
          subscriptions[id].active =>
              cancelSubscriptionError(subscriptions[id].subscriber, id) = "ok"
    /\ (Done("cancelSubscription") /\ PreSub(last.args[1]).active
            /\ last.caller = PreSub(last.args[1]).subscriber) =>
          /\ last.res = "ok"
          /\ ~subscriptions[last.args[1]].active

\* a subscriber who is neither owner nor the deploying agent, with no tokens
\* left, cancelled an overdue subscription after the owner had replaced the
\* agent and raised the fee rate to the ceiling
C28_Witness ==
    /\ Done("cancelSubscription") /\ last.res = "ok"
    /\ last.caller = PreSub(last.args[1]).subscriber
    /\ last.caller # Pre.owner
    /\ tokenBalance[last.caller] = 0
    /\ now >= PreSub(last.args[1]).nextPaymentDue
    /\ Pre.platformFee = MAX_FEE
    /\ Pre.agentWallet # 2
    /\ ~subscriptions[last.args[1]].active

\* the subscriber cancelled before any payment was due, at the deployment
\* rate and under the deploying agent
CancelBeforeDue ==
    /\ Done("cancelSubscription") /\ last.res = "ok"
    /\ last.caller = PreSub(last.args[1]).subscriber
    /\ now < PreSub(last.args[1]).nextPaymentDue
    /\ Pre.platformFee = INITIAL_FEE
    /\ Pre.agentWallet = 2

\* C29 as the specification states it: between transactions the ledger holds
\* at least as many tokens as the creator balances and the unreleased escrows
\* add up to.
C29_Solvent ==
    frame.op = "none" => tokenBalance[LEDGER] >= SumBalances + EscrowsHeld

\* a creator with a positive balance could not withdraw it: the ledger held
\* fewer tokens than the balance, and the withdrawal reverted
CreatorUnpaid ==
    /\ Done("withdrawCreatorBalance")
    /\ last.res = "TransferFailed"
    /\ Pre.creatorBalances[last.caller] > last.pre.tokenBalance[LEDGER]
    /\ creatorBalances[last.caller] = Pre.creatorBalances[last.caller]

\* the tokens of an unreleased escrow were paid out to the owner
EscrowDrained ==
    /\ Done("withdrawPlatformFees") /\ last.res = "ok"
    /\ EscrowsHeld > 0 /\ SumBalances = 0
    /\ tokenBalance[LEDGER] = 0

\* whose tokens the transaction of the receipt asks the token to pull
PayerOf ==
    IF last.op = "createSubscription" THEN last.args[1]
    ELSE IF last.op = "processSubscriptionPayment" THEN PreSub(last.args[1]).subscriber
    ELSE IF last.op = "sendTip" THEN last.args[1]
    ELSE IF last.op = "createMicropaymentEscrow" THEN last.caller
    ELSE NULL

\* C30: the token balance or the allowance of an identity is lower after a
\* transaction than before it only if the transaction is a
\* createSubscription, processSubscriptionPayment or sendTip sent by the
\* current agent that names the identity as payer, or a
\* createMicropaymentEscrow the identity sent itself; no call of the owner, a
\* creator or another user lowers them, and no identity loses more than the
\* amount of the call.
C30_PullsAuthorized ==
    InTransaction =>
        \A a \in Addr :
            (\/ tokenBalance[a] < last.pre.tokenBalance[a]
             \/ tokenAllowance[a] < last.pre.tokenAllowance[a]) =>
                /\ last.res = "ok"
                /\ a = PayerOf
                /\ \/ last.op \in AgentGated /\ last.caller = Pre.agentWallet
                   \/ last.op = "createMicropaymentEscrow" /\ last.caller = a
                /\ tokenBalance[LEDGER] - last.pre.tokenBalance[LEDGER]
                      = last.pre.tokenBalance[a] - tokenBalance[a]

\* the agent, who is neither the subscriber nor the owner, had a due payment
\* pulled from the subscriber
C30_Witness ==
    /\ Done("processSubscriptionPayment") /\ last.res = "ok"
    /\ last.caller = Pre.agentWallet
    /\ last.caller # PayerOf /\ last.caller # Pre.owner
    /\ tokenBalance[PayerOf] = last.pre.tokenBalance[PayerOf] - PreSub(last.args[1]).amount
    /\ PreSub(last.args[1]).amount > 0

\* an identity deposited an escrow from its own tokens
OwnDeposit ==
    /\ Done("createMicropaymentEscrow") /\ last.res = "ok"
    /\ last.caller # Pre.agentWallet
    /\ tokenBalance[last.caller] < last.pre.tokenBalance[last.caller]

\* C31: isPaymentDue(id) is true exactly for a stored, active subscription
\* with now >= nextPaymentDue.  Between transactions the checks of
\* processSubscriptionPayment(id) sent by the agent pass exactly when
\* isPaymentDue(id) is true; a call that got as far as the token transfer was
\* due; a call by the agent that failed otherwise than in the transfer was
\* not due, and one that failed in the transfer was due but the subscriber
\* lacked balance or allowance.
C31_DueMeansPayable ==
    /\ \A id \in SubIdInputs :
          isPaymentDue(id) <=> /\ id \in DOMAIN subscriptions
                               /\ subscriptions[id].active
                               /\ now >= subscriptions[id].nextPaymentDue
    /\ Idle =>
          \A id \in SubIdInputs :
              isPaymentDue(id) <=> processSubscriptionPaymentError(agentWallet, id) = "ok"
    /\ (frame.op = "processSubscriptionPayment" /\ frame.inner.op = "none") =>
          isPaymentDue(frame.args[1])
    /\ (Done("processSubscriptionPayment") /\ last.caller = Pre.agentWallet
            /\ last.res # "ok") =>
          LET sub == PreSub(last.args[1])
          IN  /\ NothingChanged
              /\ IF last.res = "TransferFailed"
                 THEN isPaymentDue(last.args[1]) /\ ~PrePullOk(sub.subscriber, sub.amount)
                 ELSE ~isPaymentDue(last.args[1])

\* the payment of a due subscription is being collected from a subscriber who
\* can pay it
DuePaymentUnderWay ==
    /\ frame.op = "processSubscriptionPayment"
    /\ last.res = "pending"
    /\ isPaymentDue(frame.args[1])
    /\ TransferFromOk(Sub(frame.args[1]).subscriber, Sub(frame.args[1]).amount)

\* the agent charged a subscription that was active and due when the call
\* was sent, and that is not due any more
C31_Witness ==
    /\ Done("processSubscriptionPayment") /\ last.res = "ok"
    /\ last.caller = Pre.agentWallet
    /\ PreSub(last.args[1]).active
    /\ now >= PreSub(last.args[1]).nextPaymentDue
    /\ PrePullOk(PreSub(last.args[1]).subscriber, PreSub(last.args[1]).amount)
    /\ ~isPaymentDue(last.args[1])

\* the agent's call failed on a cancelled subscription whose due time had
\* passed, for which isPaymentDue is false
NotDueWhenCancelled ==
    /\ Done("processSubscriptionPayment") /\ last.caller = Pre.agentWallet
    /\ last.res = "SubscriptionNotActive"
    /\ last.args[1] \in DOMAIN subscriptions
    /\ now >= subscriptions[last.args[1]].nextPaymentDue
    /\ ~isPaymentDue(last.args[1])

\* the creator a settling transaction names and the gross amount it settles
NamedCreator ==
    IF last.op \in {"createSubscription", "sendTip"} THEN last.args[2]
    ELSE IF last.op = "processSubscriptionPayment" THEN PreSub(last.args[1]).creator
    ELSE IF last.op = "releaseMicropayment" THEN PreEsc(last.args[1]).creator
    ELSE NULL
GrossAmount ==
    IF last.op \in {"createSubscription", "sendTip"} THEN last.args[3]
    ELSE IF last.op = "processSubscriptionPayment" THEN PreSub(last.args[1]).amount
    ELSE IF last.op = "releaseMicropayment" THEN PreEsc(last.args[1]).amount
    ELSE 0
Settling == {"createSubscription", "processSubscriptionPayment", "sendTip",
             "releaseMicropayment"}

\* C32: after a mined transaction the balance of a creator differs from the
\* one before it only if the transaction succeeded and either is a
\* subscription payment, tip or escrow release naming that creator, which
\* adds the creator's share of the amount, or is that creator's own
\* withdrawCreatorBalance, which sets it to zero and pays the creator exactly
\* the former balance; every other balance is as before.
C32_BalanceFrame ==
    /\ (Done("withdrawCreatorBalance") /\ last.res = "ok") =>
          (Pre.creatorBalances[last.caller] > 0 /\ creatorBalances[last.caller] = 0)
    /\ (last.op \in Settling /\ last.res = "ok") =>
          creatorBalances[NamedCreator] = Pre.creatorBalances[NamedCreator] + CutOf(GrossAmount)
    /\ (InTransaction /\ last.res # "pending") =>
        \A c \in DOMAIN creatorBalances :
            creatorBalances[c] # Pre.creatorBalances[c] =>
                /\ last.res = "ok"
                /\ \/ /\ last.op \in Settling
                      /\ c = NamedCreator
                      /\ creatorBalances[c] = Pre.creatorBalances[c] + CutOf(GrossAmount)
                   \/ /\ last.op = "withdrawCreatorBalance"
                      /\ c = last.caller
                      /\ creatorBalances[c] = 0
                      /\ tokenBalance[c] = last.pre.tokenBalance[c] + Pre.creatorBalances[c]
                      /\ \A a \in Addr \ {c} : tokenBalance[a] = last.pre.tokenBalance[a]

\* one creator withdrew while another creator's balance stayed what it was
C32_Witness ==
    /\ Done("withdrawCreatorBalance") /\ last.res = "ok"
    /\ Pre.creatorBalances[last.caller] > 0
    /\ creatorBalances[last.caller] = 0
    /\ \E other \in Addr \ {last.caller} :
          /\ Pre.creatorBalances[other] > 0
          /\ creatorBalances[other] = Pre.creatorBalances[other]

\* a payment to one creator was settled while another creator had a balance
PaidBesideAnother ==
    /\ last.op \in Settling /\ last.res = "ok"
    /\ creatorBalances[NamedCreator] > Pre.creatorBalances[NamedCreator]
    /\ \E other \in Addr \ {NamedCreator} : creatorBalances[other] > 0

\* C33 as the specification states it: releaseMicropayment on an identifier
\* under which no payer ever stored an escrow fails, whoever sends it, and
\* changes nothing.
C33_UnknownEscrowRejected ==
    (Done("releaseMicropayment") /\ PreEsc(last.args[1]).payer = NULL) =>
        (last.res # "ok" /\ last.events = <<>> /\ NothingChanged)

\* the same for every caller but the owner
UnknownEscrowRejectedForOthers ==
    (Done("releaseMicropayment") /\ PreEsc(last.args[1]).payer = NULL
        /\ last.caller # Pre.owner) =>
        (last.res = "UnauthorizedUser" /\ last.events = <<>> /\ NothingChanged)

\* the owner released an identifier nothing was stored under: the call
\* succeeded, emitted MicropaymentReleased and marked the identifier released
PhantomRelease ==
    /\ Done("releaseMicropayment") /\ last.res = "ok"
    /\ last.caller = Pre.owner
    /\ last.args[1] \notin DOMAIN Pre.escrows
    /\ escrows[last.args[1]].released /\ escrows[last.args[1]].payer = NULL
    /\ last.events = <<"MicropaymentReleased">>

\* C34: whenever no call is under way the reentrancy guard is released,
\* however the last call ended, so the guard of every guarded entry point
\* lets the next top-level call in; a transaction ends with Reentrant only
\* when the token called back into the ledger during that same transaction
\* and let the failure of the nested call propagate.
C34_GuardReleased ==
    /\ frame.op = "none" => (status = NOT_ENTERED /\ nonReentrant)
    /\ frame.op # "none" => status = ENTERED
    /\ (InTransaction /\ last.res = "Reentrant") =>
          (last.inner.op \in GuardedOps /\ last.inner.res = "Reentrant")
    /\ Idle => \A op \in GuardedOps, c \in Addr : GuardedError(op, c) # "Reentrant"

\* a call failed inside the token transfer and left the guard released
C34_Witness ==
    /\ InTransaction /\ last.op \in GuardedOps
    /\ last.res = "TransferFailed"
    /\ frame.op = "none"
    /\ status = NOT_ENTERED
    /\ NothingChanged

\* a nested call was rejected and its failure undid the whole transaction,
\* which left the guard released
RevertedByNestedCall ==
    /\ InTransaction /\ last.res = "Reentrant"
    /\ last.inner.res = "Reentrant"
    /\ status = NOT_ENTERED

\* C35: a run of processPaymentsAutomatically never throws; it takes the ids
\* in list order, one log entry per id taken; it submits
\* processSubscriptionPayment, signed with the agent key, only for the id at
\* hand and only after isPaymentDue returned true for it, hence never for an
\* id nothing is stored under; after a failure of the check, of the
\* submission or of the transaction it goes on with the next id, and when it
\* is done every id of the list has been taken.
C35_RunCompletes ==
    /\ job.pc \in {"idle", "check", "submit", "sent", "done"}
    /\ Len(job.log) = job.i - 1
    /\ job.i <= Len(job.ids) + 1
    /\ \A k \in 1 .. Len(job.log) :
          /\ job.log[k].id = job.ids[k]
          /\ job.log[k].sent => job.log[k].due = "true"
          /\ job.log[k].outcome = "processed" => job.log[k].sent
          /\ job.log[k].due = "false" => job.log[k].outcome = "not due"
    /\ job.pc \in {"check", "submit", "sent"} => job.i <= Len(job.ids)
    /\ job.pc \in {"submit", "sent"} => job.ids[job.i] \in DOMAIN subscriptions
    /\ job.pc = "done" => Len(job.log) = Len(job.ids)
    /\ last.op = "processSubscriptionPayment" =>
          /\ job.pc = "sent"
          /\ last.caller = AgentKey
          /\ last.args[1] = job.ids[job.i]

\* a run over two ids is done: the first id failed, the second was charged
C35_Witness ==
    /\ job.pc = "done"
    /\ Len(job.ids) = 2
    /\ job.log[1].outcome = "failed"
    /\ job.log[2].outcome = "processed"
    /\ processed[job.ids[2]] >= 1

\* a transaction of the run reverted and the run went on to the next id
RevertCaught ==
    /\ Len(job.log) = 2
    /\ job.log[1].sent /\ job.log[1].outcome = "failed"
    /\ job.log[2].outcome \in {"not due", "failed"}

\* the run found an id not due and charged the next one
SkippedThenCharged ==
    /\ job.pc = "done"
    /\ Len(job.ids) = 2
    /\ job.log[1].outcome = "not due" /\ job.log[1].id \notin DOMAIN subscriptions
    /\ job.log[2].outcome = "processed"


(* ------------------------- SubscriptionTipping ------------------------- *)
\* the subscription of user to creator as the receipted transaction found it
SubBefore(user, creator) ==
    IF <<user, creator>> \in DOMAIN last.pre.subscriptions
    THEN last.pre.subscriptions[<<user, creator>>] ELSE ZeroSubscription
\* the receipted transaction moved no tokens / wrote no subscription
NoTokensMoved ==
    tokenBalance = last.pre.tokenBalance /\ tokenAllowance = last.pre.tokenAllowance
NoSubscriptionWritten == subscriptionsTipping = last.pre.subscriptions

\* C36: processSubscription(user, creator), whoever sends it, succeeds only
\* on an active subscription whose nextPayment has come, and does succeed
\* then if the user's balance and approval cover the amount; a success moves
\* exactly the amount from user to creator and nothing else, and sets
\* nextPayment to its previous value plus PAYMENT_INTERVAL; a failure, the
\* token's refusal included, leaves subscription and balances as they were.
C36_ProcessSubscription ==
    last.op = "processSubscription" =>
        LET user == last.args[1]
            creator == last.args[2]
            s == SubBefore(user, creator)
            due == s.active /\ now >= s.nextPayment
            covered == /\ last.pre.tokenBalance[user] >= s.amount
                       /\ last.pre.tokenAllowance[user] >= s.amount
        IN  /\ last.res = "ok" => due
            /\ due /\ s.amount > 0 /\ covered => last.res = "ok"
            /\ last.res = "ok" =>
                  /\ tokenBalance[user] = last.pre.tokenBalance[user] - s.amount
                  /\ tokenBalance[creator] = last.pre.tokenBalance[creator] + s.amount
                  /\ \A h \in Holders \ {user, creator} :
                        tokenBalance[h] = last.pre.tokenBalance[h]
                  /\ SubOf(user, creator).nextPayment = s.nextPayment + PAYMENT_INTERVAL
                  /\ SubOf(user, creator).amount = s.amount
                  /\ SubOf(user, creator).active
            /\ last.res # "ok" => NoTokensMoved /\ NoSubscriptionWritten

\* a sender who is neither the subscriber, the owner nor a relayer collects
\* a payment that is overdue by a whole interval
C36_Witness ==
    /\ last.op = "processSubscription"
    /\ last.res = "ok"
    /\ last.caller \notin {last.args[1], last.pre.owner}
    /\ last.caller \notin last.pre.relayers
    /\ now >= SubBefore(last.args[1], last.args[2]).nextPayment + PAYMENT_INTERVAL
    /\ tokenBalance[last.args[2]] > last.pre.tokenBalance[last.args[2]]

\* the token refuses a due payment
TransferRefused ==
    /\ last.op = "processSubscription"
    /\ last.res = "TRANSFER_FROM_FAILED"
    /\ SubBefore(last.args[1], last.args[2]).active

\* how often the pair is named in the lists of a recordPayments call
TimesNamed(users, creators, pair) ==
    Cardinality({i \in DOMAIN users : <<users[i], creators[i]>> = pair})
\* the lists of the receipted recordPayments call differ in length
ListsDiffer ==
    \E k \in 2 .. 4 : Len(last.args[k]) # Len(last.args[1])

\* C37: recordPayment and recordPayments succeed only for a sender who is a
\* relayer or the owner when the call is made, and a relayer taken off by
\* removeRelayer is none; they never move tokens; recordPayment on an
\* inactive or unwritten subscription reverts; a successful recordPayments
\* advances each active entry by one interval per mention and leaves every
\* other subscription as it was; with lists of differing lengths it
\* reverts and changes nothing.
C37_RecordedPayments ==
    /\ last.op \in {"recordPayment", "recordPayments"} =>
          /\ last.res = "ok" =>
                last.caller \in last.pre.relayers \/ last.caller = last.pre.owner
          /\ NoTokensMoved
          /\ ownerTipping = last.pre.owner /\ relayers = last.pre.relayers
          /\ last.res # "ok" => NoSubscriptionWritten
    /\ last.op = "removeRelayer" /\ last.res = "ok" => last.args[1] \notin relayers
    /\ last.op = "recordPayment" =>
          LET s == SubBefore(last.args[1], last.args[2])
          IN  /\ ~s.active => last.res # "ok"
              /\ last.res = "ok" =>
                    /\ SubOf(last.args[1], last.args[2]) =
                          [s EXCEPT !.lastPayment = now,
                                    !.nextPayment = s.nextPayment + PAYMENT_INTERVAL]
                    /\ \A pair \in DOMAIN subscriptionsTipping \ {<<last.args[1], last.args[2]>>} :
                          subscriptionsTipping[pair] = last.pre.subscriptions[pair]
    /\ last.op = "recordPayments" =>
          /\ ListsDiffer => last.res # "ok"
          /\ last.res = "ok" =>
                /\ DOMAIN subscriptionsTipping = DOMAIN last.pre.subscriptions
                /\ \A pair \in DOMAIN subscriptionsTipping :
                      LET s == last.pre.subscriptions[pair]
                          k == TimesNamed(last.args[1], last.args[2], pair)
                      IN  subscriptionsTipping[pair] =
                             IF s.active /\ s.amount > 0 /\ k > 0
                             THEN [s EXCEPT !.lastPayment = now,
                                            !.nextPayment = s.nextPayment + k * PAYMENT_INTERVAL]
                             ELSE s

\* a relayer who is not the owner sends a batch naming a subscription that
\* was never written and an active one, and the active one is advanced
C37_Witness ==
    /\ last.op = "recordPayments"
    /\ last.res = "ok"
    /\ last.caller \in last.pre.relayers
    /\ last.caller # last.pre.owner
    /\ Len(last.args[1]) = 2
    /\ \E i, j \in 1 .. 2 :
          /\ <<last.args[1][i], last.args[2][i]>> \notin DOMAIN last.pre.subscriptions
          /\ SubBefore(last.args[1][j], last.args[2][j]).active
          /\ SubOf(last.args[1][j], last.args[2][j]).nextPayment =
                SubBefore(last.args[1][j], last.args[2][j]).nextPayment + PAYMENT_INTERVAL
          /\ SubOf(last.args[1][j], last.args[2][j]).lastPayment = now

\* a cancelled subscription named in a batch is passed over
CancelledSkipped ==
    /\ last.op = "recordPayments"
    /\ last.res = "ok"
    /\ \E i \in DOMAIN last.args[1] :
          LET s == SubBefore(last.args[1][i], last.args[2][i])
          IN  s.amount > 0 /\ ~s.active
    /\ NoSubscriptionWritten

\* the owner's batch with lists of differing lengths
MismatchRejected ==
    /\ last.op = "recordPayments"
    /\ last.caller = last.pre.owner
    /\ ListsDiffer
    /\ last.res = "array length mismatch"

\* one that is neither relayer nor owner records a payment on an active
\* subscription and is turned away
StrangerRejected ==
    /\ last.op = "recordPayment"
    /\ last.res = "not authorized"
    /\ SubBefore(last.args[1], last.args[2]).active

\* a relayer's recordPayment on a cancelled subscription
RecordOnCancelled ==
    /\ last.op = "recordPayment"
    /\ last.caller \in last.pre.relayers
    /\ SubBefore(last.args[1], last.args[2]).amount > 0
    /\ last.res = "subscription not active"

\* C38: for every (user, creator) pair, any two successful
\* processSubscription charges lie at least PAYMENT_INTERVAL apart.
C38_ChargesApart ==
    \A pair \in DOMAIN history :
        \A i, j \in DOMAIN history[pair].paidAt :
            i < j => history[pair].paidAt[j] - history[pair].paidAt[i] >= PAYMENT_INTERVAL

\* what the schedule does keep: since subscribe or reactivateSubscription
\* last set it, no more charges than whole intervals have passed
OneChargePerPeriod ==
    \A pair \in DOMAIN history :
        history[pair].sinceSet * PAYMENT_INTERVAL <= now - history[pair].setAt

\* a payment collected late is followed by the next one in the same block
ChargedTwiceAtOnce ==
    /\ last.op = "processSubscription"
    /\ last.res = "ok"
    /\ SubBefore(last.args[1], last.args[2]).lastPayment = now
    /\ \E i \in DOMAIN history[<<last.args[1], last.args[2]>>].paidAt :
          /\ i > 1
          /\ history[<<last.args[1], last.args[2]>>].paidAt[i] = now
          /\ history[<<last.args[1], last.args[2]>>].paidAt[i - 1] = now

TippingOps ==
    {"subscribe", "cancelSubscription", "reactivateSubscription", "updateSubscriptionAmount",
     "addRelayer", "removeRelayer", "processSubscription", "recordPayment",
     "recordPayments", "tip", "emergencyWithdraw"}
\* the calls by which a user sets the terms of its own subscription
OwnTermsOps ==
    {"subscribe", "cancelSubscription", "reactivateSubscription", "updateSubscriptionAmount"}

\* C39: the active flag and the amount of the subscription of user U to
\* creator C differ after a transaction only if U itself sent it, it
\* succeeded, and it was subscribe, cancelSubscription,
\* reactivateSubscription or updateSubscriptionAmount for creator C;
\* reactivateSubscription succeeds exactly on a written subscription that
\* is not active, and leaves it active with its amount and with
\* nextPayment = now + PAYMENT_INTERVAL.
C39_OwnTerms ==
    /\ last.op \in TippingOps =>
          \A pair \in DOMAIN subscriptionsTipping \cup DOMAIN last.pre.subscriptions :
              (\/ SubOf(pair[1], pair[2]).active # SubBefore(pair[1], pair[2]).active
               \/ SubOf(pair[1], pair[2]).amount # SubBefore(pair[1], pair[2]).amount)
              => /\ last.res = "ok"
                 /\ last.op \in OwnTermsOps
                 /\ last.caller = pair[1]
                 /\ last.args[1] = pair[2]
    /\ last.op = "reactivateSubscription" =>
          LET s == SubBefore(last.caller, last.args[1])
          IN  /\ last.res = "ok" <=> s.amount > 0 /\ ~s.active
              /\ last.res = "ok" =>
                    SubOf(last.caller, last.args[1]) =
                       [s EXCEPT !.active = TRUE, !.nextPayment = now + PAYMENT_INTERVAL]
              /\ last.res # "ok" => NoSubscriptionWritten

\* a user reactivates its cancelled subscription an interval after it
\* subscribed, while a relayer is installed: the schedule restarts from now
C39_Witness ==
    /\ last.op = "reactivateSubscription"
    /\ last.res = "ok"
    /\ last.pre.relayers # {}
    /\ SubOf(last.caller, last.args[1]).active
    /\ SubOf(last.caller, last.args[1]).nextPayment = now + PAYMENT_INTERVAL
    /\ SubBefore(last.caller, last.args[1]).nextPayment < now + PAYMENT_INTERVAL

\* the owner's cancelSubscription reaches only the owner's own slot: the
\* user's subscription to the same creator stays active
OwnerCancelMisses ==
    /\ last.op = "cancelSubscription"
    /\ last.caller = last.pre.owner
    /\ last.res # "ok"
    /\ \E pair \in DOMAIN subscriptionsTipping :
          pair[1] # last.caller /\ pair[2] = last.args[1] /\ subscriptionsTipping[pair].active

\* reactivateSubscription on an active subscription, and on none at all
ReactivateActive ==
    last.op = "reactivateSubscription" /\ last.res = "subscription already active"
ReactivateUnwritten ==
    last.op = "reactivateSubscription" /\ last.res = "no subscription exists"

\* a user re-prices its subscription after cancelling it
RepricedWhileCancelled ==
    /\ last.op = "updateSubscriptionAmount"
    /\ last.res = "ok"
    /\ ~SubOf(last.caller, last.args[1]).active
    /\ SubOf(last.caller, last.args[1]).amount # SubBefore(last.caller, last.args[1]).amount
====
